---- MODULE Spec2Model ----
(***************************************************************************)
(* A model of the 3D product viewer: the configuration merge               *)
(* (config.js, ProductViewer.mergeOptions), the ModelManager load / cache  *)
(* / timeout machinery together with the ProductViewer and App glue that   *)
(* reacts to it, the FileDropHandler validation pipeline, the material     *)
(* preset entry points of ProductViewer / MaterialManager, the             *)
(* LightingManager, the RendererManager with the viewer's render loop, and *)
(* the CameraManager's transitions.                                        *)
(*                                                                         *)
(* JavaScript runs one task at a time: an action of this module is one     *)
(* task (a public call, a loader / timer / FileReader callback, a click)   *)
(* together with every microtask continuation (await resumption) that the  *)
(* task triggers, because those run before the next task starts.           *)
(***************************************************************************)
EXTENDS Integers, Sequences, FiniteSets, TLC

VARIABLES
  \* ---- configuration (ProductViewer constructor) ----
  cfgEnv,        \* ProductViewer.environment
  cfgDevice,     \* ProductViewer.deviceType
  cfgOptions,    \* the options object handed to the constructor
  config,        \* ProductViewer.config ("unset" before construction)
  \* ---- App / ProductViewer / ModelManager ----
  host,          \* "app": main.js creates the viewer; "direct": the page does (README usage)
  app,           \* App: isInitialized, the retry button's click listener
  vw,            \* ProductViewer with its SceneManager and the overlay elements it drives
  mm,            \* ModelManager
  loads,         \* the loadModel calls made so far, in call order
  emitted,       \* the events dispatched during the last task, in order
  settledNow,    \* the settlements of loadModel promises during the last task
  \* ---- MaterialManager ----
  mat,           \* MaterialManager
  meshMat,       \* mesh -> the material object it carries (child.material)
  framing,       \* handleModelLoaded calls waiting for the camera animation
  disposed,      \* the geometries and materials on which dispose() has been called
  lm,            \* LightingManager
  \* ---- FileDropHandler ----
  fdh,           \* FileDropHandler: isProcessing, currentFile
  drops,         \* the handleFiles invocations made so far, in call order
  timers,        \* pending setTimeout callbacks of the FileDropHandler
  \* ---- lights, renderer, render loop, camera ----
  envLoads,      \* applyLightingPreset calls waiting for loadEnvironmentMap, in call order
  rm,            \* RendererManager
  raf,           \* ProductViewer's render loop: the pending requestAnimationFrame callbacks
  cam            \* CameraManager and its pending camera animations

cfgVars == <<cfgEnv, cfgDevice, cfgOptions, config>>
loadVars == <<host, app, vw, mm, loads, emitted, settledNow>>
matVars == <<mat, meshMat, framing, disposed, lm>>
fileVars == <<fdh, drops, timers>>
sceneVars == <<envLoads, rm, raf, cam>>
vars == <<cfgVars, loadVars, matVars, fileVars, sceneVars>>

(***************************************************************************)
(* JavaScript values, as far as the configuration code looks at them.      *)
(* Numbers and booleans are integers (false = 0, true = 1, decimals in     *)
(* tenths, strings by a code number); objects and arrays carry a function  *)
(* from property names to values, an array's names being "0", "1", ...     *)
(***************************************************************************)
P(v) == [k |-> "prim", v |-> v]
Null == [k |-> "null", v |-> 0]
Undefined == [k |-> "undefined", v |-> 0]
O(f) == [k |-> "obj", f |-> f]
A(f) == [k |-> "arr", f |-> f]
EmptyObj == O(<<>>)
TypeErr == [k |-> "TypeError", v |-> 0]
Unset == [k |-> "unset", v |-> 0]

IdxKey(i) == CASE i = 1 -> "0" [] i = 2 -> "1" [] i = 3 -> "2" [] OTHER -> "3"
Arr(seq) == A([key \in {IdxKey(i) : i \in 1..Len(seq)} |->
                 seq[CHOOSE i \in 1..Len(seq) : IdxKey(i) = key]])

IsObjectType(x) == x.k \in {"obj", "arr"}       \* typeof x === 'object' && x !== null
Truthy(x) == IsObjectType(x) \/ (x.k = "prim" /\ x.v # 0)
Props(x) == IF IsObjectType(x) THEN x.f ELSE <<>>
Has(x, key) == key \in DOMAIN Props(x)

(***************************************************************************)
(* config.js: the tables, projected on the options the model reads or      *)
(* overrides (one or two keys per section are kept, with their values).    *)
(* Model URLs are numbered: 1 is '/assets/models/default-product.glb'.     *)
(* File-format strings are coded 101..104.                                 *)
(***************************************************************************)
DEFAULT_CONFIG ==
  O([renderer    |-> O([antialias |-> P(1),
                        shadowMap |-> O([enabled |-> P(1)])]),
     lighting    |-> O([globalIntensity |-> P(10),
                        shadowsEnabled  |-> P(1),
                        animations      |-> O([enabled |-> P(0), speed |-> P(10)])]),
     materials   |-> O([enhanceMaterials |-> P(1),
                        supportedFormats |-> Arr(<<P(101), P(102), P(103), P(104)>>)]),
     model       |-> O([defaultUrl     |-> P(1),
                        loadingTimeout |-> P(30000),
                        maxCacheSize   |-> P(10)]),
     performance |-> O([targetFPS |-> P(60), maxMemoryMB |-> P(500)]),
     ui          |-> O([showPerformanceStats |-> P(1)]),
     development |-> O([debug |-> P(0), verbose |-> P(0)])])

ENVIRONMENT_CONFIG ==
  [development |->
     O([development |-> O([debug |-> P(1), verbose |-> P(1)]),
        ui          |-> O([showPerformanceStats |-> P(1)]),
        lighting    |-> O([animations |-> O([enabled |-> P(1)])])]),
   production |->
     O([development |-> O([debug |-> P(0), verbose |-> P(0)]),
        ui          |-> O([showPerformanceStats |-> P(0)]),
        performance |-> O([targetFPS |-> P(30)])])]

DEVICE_CONFIG ==
  [mobile |->
     O([renderer    |-> O([antialias |-> P(0),
                           shadowMap |-> O([enabled |-> P(1)])]),
        performance |-> O([targetFPS |-> P(30), maxMemoryMB |-> P(200)]),
        lighting    |-> O([globalIntensity |-> P(8), shadowsEnabled |-> P(1)]),
        materials   |-> O([enhanceMaterials |-> P(0)])]),
   tablet |->
     O([performance |-> O([targetFPS |-> P(45), maxMemoryMB |-> P(350)]),
        lighting    |-> O([globalIntensity |-> P(9)])]),
   desktop |-> EmptyObj]

Environments == {"development", "production"}     \* detectEnvironment()
DeviceTypes == {"mobile", "tablet", "desktop"}    \* detectDeviceType()

(***************************************************************************)
(* mergeConfig(target, source): result = {...target}; an object-valued     *)
(* source key (arrays excluded) is merged into target[key] || {}, any      *)
(* other value replaces the target's.                                      *)
(***************************************************************************)
RECURSIVE mergeConfig(_, _)
mergeConfig(target, source) ==
  LET spread == Props(target)
      keys == DOMAIN spread \cup DOMAIN source.f
  IN  O([key \in keys |->
           IF key \notin DOMAIN source.f THEN spread[key]
           ELSE IF source.f[key].k = "obj"
                THEN mergeConfig(IF Has(target, key) /\ Truthy(spread[key])
                                 THEN spread[key] ELSE EmptyObj,
                                 source.f[key])
                ELSE source.f[key]])

getConfig(environment, deviceType) ==
  LET c0 == O(Props(DEFAULT_CONFIG))
      c1 == IF environment \in DOMAIN ENVIRONMENT_CONFIG
            THEN mergeConfig(c0, ENVIRONMENT_CONFIG[environment]) ELSE c0
  IN  IF deviceType \in DOMAIN DEVICE_CONFIG
      THEN mergeConfig(c1, DEVICE_CONFIG[deviceType]) ELSE c1

(***************************************************************************)
(* JSON.parse(JSON.stringify(x)): an object property whose value is        *)
(* undefined is dropped, an undefined array element becomes null, an       *)
(* array keeps only its index properties.                                  *)
(***************************************************************************)
IndexKeys == {"0", "1", "2", "3"}
RECURSIVE JsonClone(_)
JsonClone(x) ==
  IF x.k = "obj"
  THEN O([key \in {q \in DOMAIN x.f : x.f[q].k # "undefined"} |-> JsonClone(x.f[key])])
  ELSE IF x.k = "arr"
  THEN A([key \in DOMAIN x.f \cap IndexKeys |->
            IF x.f[key].k = "undefined" THEN Null ELSE JsonClone(x.f[key])])
  ELSE x

(***************************************************************************)
(* ProductViewer.mergeOptions: the inner merge(target, source) assigns     *)
(* into target in place.  Every source value of type 'object' (arrays      *)
(* included) is merged into target[key] || {}; the module is strict-mode   *)
(* code, so an assignment into a primitive target throws a TypeError.      *)
(***************************************************************************)
RECURSIVE merge(_, _)
merge(target, source) ==
  IF ~IsObjectType(target)
  THEN IF DOMAIN source.f = {} THEN target ELSE TypeErr
  ELSE
    LET keys == DOMAIN target.f \cup DOMAIN source.f
        res == [key \in keys |->
                  IF key \notin DOMAIN source.f THEN target.f[key]
                  ELSE IF IsObjectType(source.f[key])
                       THEN merge(IF Has(target, key) /\ Truthy(target.f[key])
                                  THEN target.f[key] ELSE EmptyObj,
                                  source.f[key])
                       ELSE source.f[key]]
    IN  IF \E key \in keys : res[key].k = "TypeError"
        THEN TypeErr
        ELSE [k |-> target.k, f |-> res]

mergeOptions(defaultConfig, userOptions) ==
  merge(JsonClone(defaultConfig), userOptions)

\* ProductViewer constructor, lines 38-40: this.config
ViewerConfig(environment, deviceType, options) ==
  mergeOptions(getConfig(environment, deviceType), options)

\* x.a?.b style reads of the configuration
RECURSIVE Lookup(_, _)
Lookup(x, path) ==
  IF path = <<>> THEN x
  ELSE IF Has(x, Head(path)) THEN Lookup(x.f[Head(path)], Tail(path))
  ELSE Undefined


(***************************************************************************)
(* Caller-supplied options: every object that overrides at most            *)
(* MaxOverrides of the paths below, each with a number, a falsy value or   *)
(* an array.  <<"maxCacheSize">> is a top-level key no table defines.      *)
(***************************************************************************)
MaxOverrides == 2

OverridePaths ==
  { <<"maxCacheSize">>,
    <<"model", "maxCacheSize">>,
    <<"model", "defaultUrl">>,
    <<"performance", "targetFPS">>,
    <<"lighting", "globalIntensity">>,
    <<"lighting", "animations", "enabled">>,
    <<"materials", "supportedFormats">>,
    <<"materials", "enhanceMaterials">>,
    <<"ui", "showPerformanceStats">>,
    <<"development", "debug">> }

OverrideValues == { P(0), P(2), Arr(<<P(109)>>) }

RECURSIVE TreeOf(_)
TreeOf(assign) ==
  LET heads == {p[1] : p \in DOMAIN assign}
  IN  O([h \in heads |->
           IF <<h>> \in DOMAIN assign THEN assign[<<h>>]
           ELSE TreeOf([q \in {Tail(p) : p \in {r \in DOMAIN assign : r[1] = h}}
                          |-> assign[<<h>> \o q]])])

UserOptions ==
  { TreeOf(a) : a \in UNION { [S -> OverrideValues] :
                   S \in {T \in SUBSET OverridePaths : Cardinality(T) <= MaxOverrides} } }


(***************************************************************************)
(* Events.  An event is [src, type, k]: the dispatcher ("mm" ModelManager, *)
(* "viewer" ProductViewer), the event type and the loadModel call it       *)
(* belongs to (0 when it belongs to none).                                 *)
(***************************************************************************)
Ev(src, type, k) == [src |-> src, type |-> type, k |-> k]
Types(evs, src) == { evs[i].type : i \in {j \in 1..Len(evs) : evs[j].src = src} }
HasEv(evs, src, type, k) == \E i \in 1..Len(evs) : evs[i] = Ev(src, type, k)

(***************************************************************************)
(* ModelManager.  The model returned by the k-th loadModel call is named   *)
(* k (0 is null).  modelCache is the Map's keys in the Map's iteration     *)
(* order, which is the order in which the keys were inserted.              *)
(***************************************************************************)
NumUrls == 2
MaxLoads == 3
Urls == 1..NumUrls

\* constructor, lines 12-46, with this.config = the viewer's whole config
ModelManagerNew(cfg) ==
  [ maxCacheSize    |-> IF Truthy(Lookup(cfg, <<"maxCacheSize">>))
                        THEN Lookup(cfg, <<"maxCacheSize">>).v ELSE 10,
    modelCache      |-> <<>>,
    isLoading       |-> FALSE,
    loadingProgress |-> 0,
    currentModel    |-> 0 ]

NoManager == [ maxCacheSize |-> 0, modelCache |-> <<>>, isLoading |-> FALSE,
               loadingProgress |-> 0, currentModel |-> 0 ]

CachedUrls(cache) == { cache[i] : i \in 1..Len(cache) }

\* Map.prototype.set: an existing key keeps its place, a new key goes last
MapSet(cache, url) ==
  IF url \in CachedUrls(cache) THEN cache ELSE Append(cache, url)

\* variants of _addToCache that the properties below must tell apart from it
addToCache_NeverEvicts(m, url) == [m EXCEPT !.modelCache = MapSet(@, url)]
addToCache_EvictsNewest(m, url) ==
  LET kept == IF Len(m.modelCache) >= m.maxCacheSize /\ m.modelCache # <<>>
              THEN SubSeq(m.modelCache, 1, Len(m.modelCache) - 1) ELSE m.modelCache
  IN  [m EXCEPT !.modelCache = MapSet(kept, url)]

\* _addToCache, lines 443-462: the cache after the call
addToCache(m, url) ==
  LET kept == IF Len(m.modelCache) >= m.maxCacheSize /\ m.modelCache # <<>>
              THEN Tail(m.modelCache) ELSE m.modelCache
  IN  [m EXCEPT !.modelCache = MapSet(kept, url)]

\* clearCache, lines 526-533
clearCache(m) == [m EXCEPT !.modelCache = <<>>]

\* _processLoadedModel, lines 213-260 (no await inside: it runs to its end)
processLoadedModel(m, k) == [m EXCEPT !.currentModel = k]
ProcessEvents(k) == << Ev("mm", "loadProgress", k), Ev("mm", "modelProcessed", k) >>

\* loadModel, lines 98-103: is this call served from the cache?
CacheHit(m, url, force) == url \in CachedUrls(m.modelCache) /\ ~force

\* loadModel, lines 105-109: a miss sets the loading state before the loader starts
BeginLoading(m) == [m EXCEPT !.isLoading = TRUE, !.loadingProgress = 0]

\* loadModel, lines 118-136: the rest of the try block once the loader delivered a scene
CompleteLoad(m, k, url) ==
  [ addToCache(processLoadedModel(m, k), url) EXCEPT !.isLoading = FALSE ]
CompleteEvents(k) == ProcessEvents(k) \o << Ev("mm", "loadComplete", k) >>

CatchLoad_StaysLoading(m) == m

\* loadModel, lines 137-147: the catch block
CatchLoad(m) == [m EXCEPT !.isLoading = FALSE]
CatchEvents(k) == << Ev("mm", "loadError", k) >>

\* A loadModel call that can still act: st is its promise ("pending" or
\* "settled"), timer the setTimeout of line 162, loader the loader's request.
NoLoad == [ url |-> 0, st |-> "settled", timer |-> "none", loader |-> "none",
            awaiter |-> "none" ]

\* the record of a call right after its synchronous part
StartedLoad(m, url, force, awaiter) ==
  IF CacheHit(m, url, force)
  THEN NoLoad
  ELSE [ url |-> url, st |-> "pending", timer |-> "armed", loader |-> "pending",
         awaiter |-> awaiter ]

\* a call whose promise is settled and whose callbacks have all run or been
\* cancelled holds no state any more
Retire(l) ==
  IF l.st = "settled" /\ l.loader # "pending" /\ l.timer # "armed" THEN NoLoad ELSE l

\* The settlement of the promise of call k, as its awaiting caller sees it
NoSettle == [ k |-> 0, outcome |-> "none", reason |-> "none", value |-> 0,
              hit |-> FALSE, awaiter |-> "none" ]
Fulfil(k, awaiter, hit) ==
  [ k |-> k, outcome |-> "fulfilled", reason |-> "none", value |-> k,
    hit |-> hit, awaiter |-> awaiter ]
Reject(k, awaiter, why) ==
  [ k |-> k, outcome |-> "rejected", reason |-> why, value |-> 0,
    hit |-> FALSE, awaiter |-> awaiter ]


(***************************************************************************)
(* ProductViewer, its SceneManager and the two overlay elements.           *)
(* pc: "none" (not constructed), "new", "initializing" (init() awaits the  *)
(* default model), "initialized", "failed" (init() threw).  uiReady: the   *)
(* managers exist and initializeUI has looked the overlay elements up.     *)
(***************************************************************************)
NewViewer(pc, loadingOverlay, errorHidden) ==
  [ pc |-> pc, uiReady |-> FALSE, currentModel |-> 0,
    sceneCurrent |-> 0, sceneChildren |-> {},
    loadingOverlay |-> loadingOverlay, errorHidden |-> errorHidden ]

\* showLoadingOverlay / hideLoadingOverlay / showErrorOverlay, lines 904-932
showLoadingOverlay(v) == IF v.uiReady THEN [v EXCEPT !.loadingOverlay = "flex"] ELSE v
hideLoadingOverlay(v) == IF v.uiReady THEN [v EXCEPT !.loadingOverlay = "none"] ELSE v
showErrorOverlay(v) == IF v.uiReady THEN [v EXCEPT !.errorHidden = FALSE] ELSE v

\* App.handleViewerError, lines 128-150: the same element, found in the document
handleViewerError(v) == [v EXCEPT !.errorHidden = FALSE]

\* handleError, lines 948-959: the overlay, then the 'error' event, which App
\* listens to (setupEventListeners, line 105) when it created the viewer
handleError(v, h) ==
  IF h = "app" THEN handleViewerError(showErrorOverlay(v)) ELSE showErrorOverlay(v)

\* SceneManager.removeObject('current-model'), lines 1455-1475
removeObject(v) ==
  IF v.sceneCurrent = 0 THEN v
  ELSE [v EXCEPT !.sceneChildren = @ \ {v.sceneCurrent}, !.sceneCurrent = 0]

\* SceneManager.addObject(model, 'current-model'), lines 1419-1448
addObject(v, model) ==
  LET v1 == IF v.sceneCurrent # 0 THEN removeObject(v) ELSE v
  IN  [v1 EXCEPT !.sceneChildren = @ \cup {model}, !.sceneCurrent = model]

\* handleModelLoaded, lines 237-248: the part before its first await.  The
\* rest (camera framing, initial material preset) touches neither the
\* ModelManager nor the scene's object table.
handleModelLoaded(v, model) ==
  LET v1 == IF v.currentModel # 0 THEN removeObject(v) ELSE v
  IN  [addObject(v1, model) EXCEPT !.currentModel = model]

\* setupManagerEvents, lines 193-212: the viewer's listeners on the ModelManager
OnLoadStart(v) == showLoadingOverlay(v)
OnLoadComplete(v, model) == handleModelLoaded(hideLoadingOverlay(v), model)
OnLoadError_KeepsOverlay(v, h) == handleError(v, h)
OnLoadError(v, h) == handleError(hideLoadingOverlay(v), h)

ViewerOn(v, e, h) ==
  CASE e.type = "loadStart"    -> OnLoadStart(v)
    [] e.type = "loadComplete" -> OnLoadComplete(v, e.k)
    [] e.type = "loadError"    -> OnLoadError(v, h)
    [] OTHER                   -> v

ViewerEmits(e) ==
  CASE e.type = "loadStart"    -> << Ev("viewer", "modelLoadStart", e.k) >>
    [] e.type = "loadComplete" -> << Ev("viewer", "modelLoadComplete", e.k) >>
    [] e.type = "loadError"    -> << Ev("viewer", "error", e.k) >>
    [] OTHER                   -> << >>

RECURSIVE DeliverAll(_, _, _)
DeliverAll(v, evs, h) ==
  IF evs = << >> THEN v ELSE DeliverAll(ViewerOn(v, Head(evs), h), Tail(evs), h)

RECURSIVE Dispatched(_)
Dispatched(evs) ==
  IF evs = << >> THEN << >>
  ELSE << Head(evs) >> \o ViewerEmits(Head(evs)) \o Dispatched(Tail(evs))

(***************************************************************************)
(* What the caller awaiting a loadModel promise does when it settles:      *)
(* "init" is ProductViewer.init (lines 127-140) followed, when App created *)
(* the viewer, by App.init (lines 47-57); "retry" is App.handleRetryClick  *)
(* (lines 169-176); an "api" caller is outside the repository.             *)
(***************************************************************************)
AwaiterViewer(v, l, h) ==
  CASE l.awaiter = "init" /\ l.outcome = "fulfilled" ->
         [hideLoadingOverlay(v) EXCEPT !.pc = "initialized"]
    [] l.awaiter = "init" /\ l.outcome = "rejected" ->
         LET v1 == [handleError(v, h) EXCEPT !.pc = "failed"]
         IN  IF h = "app" THEN handleViewerError(v1) ELSE v1
    [] l.awaiter = "retry" /\ l.outcome = "rejected" -> handleViewerError(v)
    [] OTHER -> v

AwaiterApp(a, l, h) ==
  CASE l.awaiter = "init" /\ l.outcome = "fulfilled" /\ h = "app" ->
         [a EXCEPT !.pc = "initialized", !.retryListener = TRUE, !.isInitialized = TRUE]
    [] l.awaiter = "init" /\ l.outcome = "rejected" /\ h = "app" ->
         [a EXCEPT !.pc = "failed"]
    [] OTHER -> a

AwaiterEvents(l) ==
  CASE l.awaiter = "init" /\ l.outcome = "fulfilled" -> << Ev("viewer", "initComplete", 0) >>
    [] l.awaiter = "init" /\ l.outcome = "rejected"  -> << Ev("viewer", "error", 0) >>
    [] OTHER -> << >>


(***************************************************************************)
(* MaterialManager.  A mesh is <<model, j>>; a material object is          *)
(* [src, preset, mesh, n, cloned]: the material a model's mesh was loaded  *)
(* with (src "model"), or the n-th material made from a preset (src        *)
(* "preset"); cloned marks a material.clone() of it.  Of a material's      *)
(* properties the record keeps roughness, in tenths.                       *)
(***************************************************************************)
NumModels == 2
MeshCount == 2
MaxMaterials == 3
Models == 1..NumModels
MeshesOf(model) == { <<model, j>> : j \in 1..MeshCount }
Meshes == UNION { MeshesOf(model) : model \in Models }

\* loadMaterialPresets, lines 100-231: the keys of defaultPresets
PresetTable == { "default", "metallic", "matte", "glossy", "glass", "plastic",
                 "ceramic", "carbon_fiber" }

\* loadMaterialPresets, lines 100-231: defaultPresets, each preset projected
\* on properties.roughness and properties.metalness (in tenths)
defaultPresets ==
  [ key \in PresetTable |->
      CASE key = "default"      -> [ roughness |-> 10, metalness |-> 0 ]
        [] key = "metallic"     -> [ roughness |-> 1,  metalness |-> 10 ]
        [] key = "matte"        -> [ roughness |-> 9,  metalness |-> 0 ]
        [] key = "glossy"       -> [ roughness |-> 1,  metalness |-> 1 ]
        [] key = "glass"        -> [ roughness |-> 0,  metalness |-> 0 ]
        [] key = "plastic"      -> [ roughness |-> 3,  metalness |-> 0 ]
        [] key = "ceramic"      -> [ roughness |-> 2,  metalness |-> 0 ]
        [] OTHER                -> [ roughness |-> 4,  metalness |-> 8 ] ]

\* the material a mesh of a loaded model comes with
ModelMaterial(mesh) ==
  [ src |-> "model", preset |-> "", mesh |-> mesh, n |-> 0, cloned |-> FALSE,
    roughness |-> 5 ]
\* createMaterialFromPreset(preset), lines 254-281, with applyMaterialProperties,
\* lines 288-302: a new material object that holds copies of the preset's
\* (primitive) property values; key and n name the object
createMaterialFromPreset(preset, key, n) ==
  [ src |-> "preset", preset |-> key, mesh |-> <<0, 0>>, n |-> n, cloned |-> FALSE,
    roughness |-> preset.roughness ]
Clone(material) == [material EXCEPT !.cloned = TRUE]

\* the geometry of a mesh, in the shape of a material record
Geometry(mesh) ==
  [ src |-> "geometry", preset |-> "", mesh |-> mesh, n |-> 0, cloned |-> FALSE,
    roughness |-> 0 ]

\* createDefaultMaterials, lines 238-247: this.materials, one material per preset
createDefaultMaterials(presets) ==
  [key \in DOMAIN presets |-> createMaterialFromPreset(presets[key], key, 0)]

\* constructor, lines 57-81, and init(), lines 85-95: the presets and the
\* materials table; created counts the materials made by applyMaterialPreset
MaterialManagerNew ==
  [ currentPreset |-> "default", currentModel |-> 0, presets |-> defaultPresets,
    materials |-> createDefaultMaterials(defaultPresets),
    originalMaterials |-> << >>, created |-> 0, isDisposed |-> FALSE ]

\* MaterialManager.dispose, lines 711-736: the manager after it and the
\* materials it calls dispose() on
disposeManager(m) ==
  IF m.isDisposed THEN m
  ELSE [m EXCEPT !.materials = << >>, !.presets = << >>, !.originalMaterials = << >>,
                 !.currentModel = 0, !.isDisposed = TRUE]
disposeManagerDisposes(m) ==
  IF m.isDisposed THEN {} ELSE { m.materials[key] : key \in DOMAIN m.materials }

\* a variant of _disposeObject that disposes nothing
disposeObject_Nothing(model, mesh) == {}

\* SceneManager._disposeObject(object), lines 1675-1700: what it calls
\* dispose() on, the geometry and the material of every mesh of the object
disposeObject(model, mesh) ==
  UNION { { Geometry(x), mesh[x] } : x \in MeshesOf(model) \cap DOMAIN mesh }

\* setCurrentModel, lines 581-595
setCurrentModel(m, model) == [m EXCEPT !.currentModel = model]

\* storeOriginalMaterials, lines 381-398
storeOriginalMaterials(m, mesh, model) ==
  [m EXCEPT !.originalMaterials = [x \in MeshesOf(model) |-> Clone(mesh[x])]]

\* applyMaterialPreset(presetName), lines 310-375: its result, the manager
\* after it, the meshes after it and the events it dispatches
applyOk(m, presetName) == m.currentModel # 0 /\ presetName \in DOMAIN m.presets

applyManager(m, mesh, presetName) ==
  IF ~applyOk(m, presetName) THEN m
  ELSE LET m1 == IF m.currentPreset = "default" /\ presetName # "default"
                 THEN storeOriginalMaterials(m, mesh, m.currentModel) ELSE m
       IN  [m1 EXCEPT !.currentPreset = presetName, !.created = @ + 1]

applyMeshes(m, mesh, presetName) ==
  IF ~applyOk(m, presetName) THEN mesh
  ELSE [x \in DOMAIN mesh |->
          IF x \in MeshesOf(m.currentModel)
          THEN createMaterialFromPreset(m.presets[presetName], presetName, m.created + 1)
          ELSE mesh[x]]

applyEvents(m, presetName) ==
  IF applyOk(m, presetName)
  THEN << Ev("materials", "materialPresetApplied", presetName) >> ELSE << >>

\* restoreOriginalMaterials, lines 405-431
restoreOk(m) == m.currentModel # 0 /\ DOMAIN m.originalMaterials # {}

restoreManager(m) == IF restoreOk(m) THEN [m EXCEPT !.currentPreset = "original"] ELSE m

restoreMeshes(m, mesh) ==
  IF ~restoreOk(m) THEN mesh
  ELSE [x \in DOMAIN mesh |->
          IF x \in MeshesOf(m.currentModel) /\ x \in DOMAIN m.originalMaterials
          THEN m.originalMaterials[x] ELSE mesh[x]]

restoreEvents(m) ==
  IF restoreOk(m) THEN << Ev("materials", "materialsRestored", "") >> ELSE << >>

\* ProductViewer.setMaterialPreset as written at viewer.js lines 647-657.
\* The class body defines setMaterialPreset again at lines 691-695, and the
\* later definition of a method name replaces the earlier one, so this is
\* never the method that runs.
setMaterialPresetShadowed(v, m, preset) ==
  IF v.currentModel # 0 /\ applyOk(m, preset)
  THEN applyEvents(m, preset) \o << Ev("viewer", "materialPresetChange", preset) >>
  ELSE << >>

\* ProductViewer.setMaterialPreset, viewer.js lines 691-695, the method that
\* runs: the events it dispatches.  It calls nothing else.
setMaterialPreset(preset) == << Ev("viewer", "materialPresetChange", preset) >>

\* updateMaterialProperty(propertyName, value), lines 537-575: the meshes
\* after it.  A material has the property when hasOwnProperty says so.
hasOwnProperty(material, propertyName) == propertyName = "roughness"

updateMaterial(material, propertyName, value) ==
  IF hasOwnProperty(material, propertyName)
  THEN [material EXCEPT !.roughness = value] ELSE material

updateMeshes(m, mesh, propertyName, value) ==
  IF m.currentModel = 0 THEN mesh
  ELSE [x \in DOMAIN mesh |->
          IF x \in MeshesOf(m.currentModel)
          THEN updateMaterial(mesh[x], propertyName, value) ELSE mesh[x]]

\* a variant of updateMaterialProperty that writes the value into the
\* current preset's properties as well
updateManager_WritesPreset(m, mesh, propertyName, value) ==
  IF m.currentModel = 0 \/ m.currentPreset \notin DOMAIN m.presets THEN m
  ELSE [m EXCEPT !.presets[m.currentPreset].roughness = value]

\* restoreOriginalMaterials (line 418) puts the very objects of
\* originalMaterials on the meshes: an update of a mesh's material is then
\* an update of the stored original too
updateManager(m, mesh, propertyName, value) ==
  IF m.currentModel = 0 THEN m
  ELSE [m EXCEPT !.originalMaterials =
          [x \in DOMAIN m.originalMaterials |->
             IF \E y \in MeshesOf(m.currentModel) \cap DOMAIN mesh :
                  mesh[y] = m.originalMaterials[x]
             THEN updateMaterial(m.originalMaterials[x], propertyName, value)
             ELSE m.originalMaterials[x]]]

updateEvents(m, propertyName) ==
  IF m.currentModel = 0 THEN << >>
  ELSE << Ev("materials", "materialPropertyUpdated", propertyName) >>

(***************************************************************************)
(* LightingManager (lighting-manager.js).  Intensities are in hundredths,  *)
(* the global intensity in tenths; colors are numbered: 1 0xffffff,        *)
(* 2 0x404040, 3 0xaaccff, 5 0x001122.  A light is [name, from, color,     *)
(* intensity, originalIntensity, castShadow]: name is light.name, from the *)
(* key of the preset whose descriptor it was created from, and             *)
(* originalIntensity 0 also stands for an unset userData.originalIntensity *)
(* (both are falsy).  A preset's environment is "null", "hdr" (a path      *)
(* ending in .hdr) or "jpg" (the path of a single image of another type).  *)
(***************************************************************************)
LightConfig(name, type, color, intensity, castShadow) ==
  [ name |-> name, type |-> type, color |-> color, intensity |-> intensity,
    castShadow |-> castShadow ]

LightPreset(lights, environment) == [ lights |-> lights, environment |-> environment ]

\* loadLightingPresets, lines 59-273: defaultPresets, projected on the
\* presets studio and night and on two lights of each
defaultLightPresets ==
  [ key \in { "studio", "night" } |->
      IF key = "studio"
      THEN LightPreset(<< LightConfig("keyLight", "DirectionalLight", 1, 120, TRUE),
                          LightConfig("ambient", "AmbientLight", 2, 30, FALSE) >>, "null")
      ELSE LightPreset(<< LightConfig("moonlight", "DirectionalLight", 3, 40, TRUE),
                          LightConfig("ambient", "AmbientLight", 5, 20, FALSE) >>, "null") ]

\* createLightFromConfig, lines 346-420, with setup...Shadows, lines 427-483:
\* a new light holding copies of the config's values
createLightFromConfig(l, cfg) ==
  [ name |-> cfg.name, from |-> "", color |-> cfg.color, intensity |-> cfg.intensity,
    originalIntensity |-> 0,
    castShadow |-> IF cfg.castShadow THEN l.shadowsEnabled ELSE FALSE ]

\* the lights of the manager's table, as objects of the scene
Tracked(l) == { << l.lights[name].from, name >> : name \in DOMAIN l.lights }

\* removeAllLights, lines 545-562
removeAllLights(l) == [l EXCEPT !.sceneLights = @ \ Tracked(l), !.lights = << >>]

\* applyLightingPreset for a preset of the table, lines 303-311:
\* removeAllLights, then createLightFromConfig and addLight (lines 490-507)
\* for each descriptor
applyLights(l, presetName) ==
  LET preset == l.lightPresets[presetName].lights
      names  == { preset[i].name : i \in 1..Len(preset) }
      l0     == removeAllLights(l)
  IN  [l0 EXCEPT
         !.lights = [name \in names |->
                       [createLightFromConfig(l,
                          preset[CHOOSE i \in 1..Len(preset) : preset[i].name = name])
                        EXCEPT !.from = presetName]],
         !.sceneLights = @ \cup { << presetName, name >> : name \in names }]

\* applyLightingPreset, lines 318-329: what follows the environment map
applyDone(l, presetName) == [l EXCEPT !.currentPreset = presetName]

\* applyLightingPreset, lines 294-339, for a preset without environment map
applyLightingPreset(l, presetName) ==
  IF presetName \notin DOMAIN l.lightPresets THEN l
  ELSE applyDone(applyLights(l, presetName), presetName)

\* constructor, lines 8-36, and init(), lines 41-54
LightingManagerNew ==
  applyLightingPreset(
    [ lightPresets |-> defaultLightPresets, lights |-> << >>, sceneLights |-> {},
      currentPreset |-> "studio", globalIntensity |-> 10, shadowsEnabled |-> TRUE ],
    "studio")

\* addLightingPreset, lines 941-945
addLightingPreset(l, id, preset) ==
  [l EXCEPT !.lightPresets =
     [key \in DOMAIN @ \cup {id} |-> IF key = id THEN preset ELSE @[key]]]

\* loadEnvironmentMap, lines 664-702, up to its first await: "throws" when
\* the path is neither an array nor an .hdr / .exr file, else the texture
\* loader has been started
loadEnvironmentMap(environmentPath) ==
  IF environmentPath = "hdr" THEN "loading" ELSE "throws"

\* Math.max(0, Math.min(2, intensity))
Clamp(intensity) == IF intensity < 0 THEN 0 ELSE IF intensity > 20 THEN 20 ELSE intensity

\* setGlobalIntensity, lines 568-590
setGlobalIntensity(l, intensity) ==
  LET g == Clamp(intensity)
      orig(light) == IF light.originalIntensity = 0 THEN light.intensity
                     ELSE light.originalIntensity
  IN  [l EXCEPT !.globalIntensity = g,
                !.lights = [name \in DOMAIN l.lights |->
                              [l.lights[name] EXCEPT
                                 !.originalIntensity = orig(l.lights[name]),
                                 !.intensity = (orig(l.lights[name]) * g) \div 10]]]

\* setLightIntensity, lines 597-615
setLightIntensity(l, lightName, intensity) ==
  IF lightName \notin DOMAIN l.lights THEN l
  ELSE [l EXCEPT !.lights[lightName].originalIntensity = intensity,
                 !.lights[lightName].intensity = (intensity * l.globalIntensity) \div 10]

\* setLightColor, lines 622-637
setLightColor(l, lightName, color) ==
  IF lightName \notin DOMAIN l.lights THEN l
  ELSE [l EXCEPT !.lights[lightName].color = color]

\* setShadowsEnabled, lines 643-657
setShadowsEnabled(l, enabled) ==
  [l EXCEPT !.shadowsEnabled = enabled,
            !.lights = [name \in DOMAIN l.lights |->
                          [l.lights[name] EXCEPT !.castShadow = enabled]]]

\* before initializeEnhancedManagers has run there is neither a
\* MaterialManager nor a LightingManager
NoMaterialManager ==
  [ currentPreset |-> "default", currentModel |-> 0, presets |-> << >>,
    materials |-> << >>, originalMaterials |-> << >>, created |-> 0,
    isDisposed |-> FALSE ]
NoLightingManager ==
  [ lightPresets |-> << >>, lights |-> << >>, sceneLights |-> {}, currentPreset |-> "studio",
    globalIntensity |-> 10, shadowsEnabled |-> TRUE ]

MatNone ==
  /\ mat = NoMaterialManager
  /\ meshMat = << >>
  /\ framing = 0
  /\ disposed = {}
  /\ lm = NoLightingManager

MatIdle ==
  /\ mat = MaterialManagerNew
  /\ meshMat = << >>
  /\ framing = 0
  /\ disposed = {}
  /\ lm = LightingManagerNew

(***************************************************************************)
(* FileDropHandler.  A file is [name, size, magic, doc, headDoc]: name is  *)
(* a sequence of characters, size is in bytes, magic says whether the      *)
(* first four bytes are the glTF magic number, doc what the whole content  *)
(* is ("gltf": a JSON document with asset.version, "json": other JSON,     *)
(* "text": not JSON) and headDoc what its first SniffBytes bytes are.      *)
(***************************************************************************)
MaxFileSize == 52428800
SniffBytes == 1024
MagicBytes == 4
allowedExtensions == { << ".", "g", "l", "b" >>, << ".", "g", "l", "t", "f" >> }

\* String.prototype.toLowerCase on the characters that occur in the names below
LowerChar(c) ==
  CASE c = "M" -> "m" [] c = "G" -> "g" [] c = "L" -> "l" [] c = "B" -> "b"
    [] c = "T" -> "t" [] c = "F" -> "f" [] OTHER -> c
toLowerCase(str) == [i \in 1..Len(str) |-> LowerChar(str[i])]

\* String.prototype.lastIndexOf('.'), 0-based, -1 when there is none
lastIndexOfDot(str) ==
  LET at == { i \in 1..Len(str) : str[i] = "." }
  IN  IF at = {} THEN -1 ELSE (CHOOSE i \in at : \A j \in at : j <= i) - 1

\* String.prototype.substring(start): a negative start counts as 0
substring(str, start) == SubSeq(str, (IF start < 0 THEN 0 ELSE start) + 1, Len(str))

\* getFileExtension, lines 599-601
getFileExtension(filename) == substring(toLowerCase(filename), lastIndexOfDot(filename))

\* validateFile, lines 381-396: the checks made before the content is read
sizeOk(file) == ~(file.size > MaxFileSize)
extensionOk(file) == getFileExtension(file.name) \in allowedExtensions

\* reader.onload of validateFileContent, lines 430-468, on the first
\* SniffBytes bytes of the file: "valid" / "invalid" is what it resolves
\* the promise with, "throws" is DataView.getUint32 raising RangeError on a
\* buffer shorter than MagicBytes, which leaves the promise unresolved
onload(file) ==
  LET extension == getFileExtension(file.name)
      byteLength == IF file.size < SniffBytes THEN file.size ELSE SniffBytes
  IN  CASE extension = << ".", "g", "l", "b" >> ->
             IF byteLength < MagicBytes THEN "throws"
             ELSE IF file.magic THEN "valid" ELSE "invalid"
        [] extension = << ".", "g", "l", "t", "f" >> ->
             IF file.headDoc = "gltf" THEN "valid" ELSE "invalid"
        [] OTHER -> "valid"

\* a handleFiles invocation: st is "ignored" (returned at line 315),
\* "reading" (validateFileContent waits for the FileReader), "hung" (onload
\* threw), "rejected" (the catch block ran for a file that failed a check),
\* "unreadable" (it ran because the FileReader failed), "loading" (fileready was
\* dispatched and the viewer's listener awaits loadModel), "complete" or
\* "loadFailed"; events are the events dispatched for its file
NewDrop(file, st, events) == [ file |-> file, st |-> st, events |-> events ]

NewFileDropHandler == [ isProcessing |-> FALSE, currentFile |-> 0 ]

\* resetState, lines 562-566
resetState(h) == [h EXCEPT !.isProcessing = FALSE, !.currentFile = 0]

NoTimers == [ error |-> 0, complete |-> 0 ]

FileIdle ==
  /\ fdh = NewFileDropHandler
  /\ drops = << >>
  /\ timers = NoTimers

(***************************************************************************)
(* RendererManager (Application.js lines 745-1331).  renderer says whether *)
(* this.renderer is set.  Two fields record what the code does not store:  *)
(* requested, whether a render was asked for (requestRender, resize, a     *)
(* setter, resume) since the last drawn frame, and last, what the render() *)
(* call of the last task did: "drawn", "skipped", or "none" when the task  *)
(* did not call render().                                                  *)
(***************************************************************************)
MaxFrames == 3

\* constructor, lines 746-768, and init(), lines 774-809, whose resize()
\* asks for the first frame
RendererManagerNew ==
  [ renderer |-> TRUE, shouldRender |-> TRUE, renderOnDemand |-> FALSE,
    needsRender |-> TRUE, frameCount |-> 0, requested |-> TRUE, last |-> "none" ]

\* requestRender, lines 1001-1003
requestRender(r) == [r EXCEPT !.needsRender = TRUE, !.requested = TRUE, !.last = "none"]

\* resize, lines 926-942, and the setters, lines 1023-1055 and 1184-1210:
\* nothing without a renderer
resize(r) == IF r.renderer THEN requestRender(r) ELSE [r EXCEPT !.last = "none"]
setToneMappingExposure(r) == IF r.renderer THEN requestRender(r) ELSE [r EXCEPT !.last = "none"]

\* setRenderOnDemand, lines 987-996
setRenderOnDemand(r, enabled) == [r EXCEPT !.renderOnDemand = enabled, !.last = "none"]

\* setRenderingEnabled, lines 1009-1017; the visibilitychange listener of
\* lines 909-914 does the same with enabled = !document.hidden
setRenderingEnabled(r, enabled) ==
  IF enabled
  THEN [r EXCEPT !.shouldRender = TRUE, !.needsRender = TRUE, !.requested = TRUE,
                 !.last = "none"]
  ELSE [r EXCEPT !.shouldRender = FALSE, !.last = "none"]

\* resetPerformanceStats, lines 1176-1187
resetPerformanceStats(r) == [r EXCEPT !.frameCount = 0, !.last = "none"]

\* a variant of render that draws whenever rendering is enabled
render_IgnoresNeedsRender(r) ==
  IF ~r.renderer \/ ~r.shouldRender THEN [r EXCEPT !.last = "skipped"]
  ELSE [r EXCEPT !.needsRender = FALSE, !.requested = FALSE,
                 !.frameCount = @ + 1, !.last = "drawn"]

\* render, lines 949-964
render(r) ==
  IF ~r.renderer \/ ~r.shouldRender THEN [r EXCEPT !.last = "skipped"]
  ELSE IF r.renderOnDemand /\ ~r.needsRender THEN [r EXCEPT !.last = "skipped"]
  ELSE [r EXCEPT !.needsRender = FALSE, !.requested = FALSE,
                 !.frameCount = @ + 1, !.last = "drawn"]

\* RendererManager.dispose, lines 1287-1311
disposeRenderer(r) == [r EXCEPT !.renderer = FALSE, !.last = "none"]

(***************************************************************************)
(* ProductViewer's render loop (viewer.js lines 540-597).  The browser     *)
(* numbers the requestAnimationFrame callbacks 1, 2, ...; pending holds    *)
(* the numbers of the callbacks that are scheduled and not cancelled,      *)
(* frame says whether the last task ran the body of animate.               *)
(***************************************************************************)
MaxFrameIds == 5

\* constructor, viewer.js lines 57-59 and 79
NewLoop ==
  [ isAnimating |-> FALSE, isDisposed |-> FALSE, animationId |-> 0, pending |-> {},
    nextId |-> 1, frame |-> FALSE ]

\* animate, viewer.js lines 545-578, without its render() call
animate(v) ==
  IF ~v.isAnimating \/ v.isDisposed THEN [v EXCEPT !.frame = FALSE]
  ELSE [v EXCEPT !.animationId = v.nextId, !.pending = @ \cup {v.nextId},
                 !.nextId = @ + 1, !.frame = TRUE]

\* startAnimationLoop, viewer.js lines 540-581
startAnimationLoop(v) ==
  IF v.isAnimating THEN [v EXCEPT !.frame = FALSE]
  ELSE animate([v EXCEPT !.isAnimating = TRUE])

\* a variant of stopAnimationLoop that does not cancel the pending callback
stopAnimationLoop_NoCancel(v) ==
  IF ~v.isAnimating THEN [v EXCEPT !.frame = FALSE]
  ELSE [v EXCEPT !.isAnimating = FALSE, !.animationId = 0, !.frame = FALSE]

\* stopAnimationLoop, viewer.js lines 586-597
stopAnimationLoop(v) ==
  IF ~v.isAnimating THEN [v EXCEPT !.frame = FALSE]
  ELSE IF v.animationId # 0
       THEN [v EXCEPT !.isAnimating = FALSE, !.pending = @ \ {v.animationId},
                      !.animationId = 0, !.frame = FALSE]
       ELSE [v EXCEPT !.isAnimating = FALSE, !.frame = FALSE]

\* ProductViewer.dispose, viewer.js lines 1005-1072, as far as the loop goes
disposeViewer(v) ==
  IF v.isDisposed THEN [v EXCEPT !.frame = FALSE]
  ELSE [stopAnimationLoop(v) EXCEPT !.isDisposed = TRUE]

(***************************************************************************)
(* CameraManager (Application.js lines 1958-2340).  A position is named by *)
(* the transition target it belongs to: [at, arrived] is the target itself *)
(* (arrived) or a point on the way to it.  Targets are "top", "right" (view *)
(* presets), "default" (defaultPosition) and "frame" (the position that    *)
(* frameObject computes for the model).  An animation is [target, left]:   *)
(* left is the number of frames after which its progress reaches 1.        *)
(***************************************************************************)
MaxAnimations == 2
MaxDuration == 3
Durations == { 1, MaxDuration }
ViewPresetInputs == { "top", "right" }

\* constructor and init(), lines 1959-2004
CameraManagerNew ==
  [ position |-> [ at |-> "default", arrived |-> TRUE ], anims |-> << >>, last |-> "none" ]

\* animateToPosition, lines 2109-2152, up to its return: the first callback
\* is scheduled; last records the target of the latest call
animateToPosition(c, target, frames) ==
  [c EXCEPT !.anims = Append(@, [ target |-> target, left |-> frames ]), !.last = target]

\* the callbacks `animate` of lines 2120-2148 that one animation frame runs,
\* in the order in which they were scheduled: each one writes
\* camera.position, so the position after the frame is the one written by
\* the last callback; a callback whose progress is 1 schedules no successor
animationFrame(c) ==
  LET n    == Len(c.anims)
      keep == { i \in 1..n : c.anims[i].left > 1 }
      Nth(k) == CHOOSE i \in keep : Cardinality({ j \in keep : j <= i }) = k
  IN  [c EXCEPT
         !.position = [ at |-> c.anims[n].target, arrived |-> c.anims[n].left = 1 ],
         !.anims = [k \in 1..Cardinality(keep) |->
                      [c.anims[Nth(k)] EXCEPT !.left = @ - 1]]]

\* the viewer's managers before initializeCore has made them (viewer.js
\* lines 43-48) and a LightingManager that loads no environment map
SceneIdle ==
  /\ envLoads = << >>
  /\ rm = 0
  /\ raf = 0
  /\ cam = 0


(***************************************************************************)
(* Spec: one page with one ProductViewer, created by App ("app") or by a   *)
(* caller that follows the README usage ("direct").  Each action is one    *)
(* task of the event loop together with the promise continuations it       *)
(* resumes.  The overlay elements are taken to exist inside the container. *)
(***************************************************************************)
MaxInFlight == 2
CacheSizes == {1, 2}
InFlight == { k \in 1..Len(loads) : loads[k].loader = "pending" }

\* the options literal of App.init, lines 34-40
AppOptions ==
  TreeOf([p \in { <<"development", "debug">>, <<"development", "verbose">> } |-> P(1)])

DirectOptions ==
  { EmptyObj, TreeOf([p \in { <<"model", "defaultUrl">> } |-> P(0)]) }
  \cup { TreeOf([p \in { <<"model", "maxCacheSize">> } |-> P(1)]) }
  \cup { TreeOf([p \in { <<"maxCacheSize">> } |-> P(n)]) : n \in CacheSizes }

NewApp == [ pc |-> "idle", isInitialized |-> FALSE, retryListener |-> FALSE ]

Init ==
  /\ host \in {"app", "direct"}
  /\ cfgEnv = "development"
  /\ cfgDevice = "desktop"
  /\ cfgOptions \in (IF host = "app" THEN {AppOptions} ELSE DirectOptions)
  /\ config = IF host = "app" THEN Unset ELSE ViewerConfig(cfgEnv, cfgDevice, cfgOptions)
  /\ app = NewApp
  /\ vw = NewViewer(IF host = "app" THEN "none" ELSE "new", "flex", TRUE)
  /\ mm = NoManager
  /\ loads = << >>
  /\ emitted = << >>
  /\ settledNow = {}
  /\ MatNone
  /\ FileIdle
  /\ SceneIdle

\* the listeners run for the events of this task, then the caller awaiting
\* the settlement `done` (NoSettle when no promise settles in this task) resumes
Effects(loadsNew, m1, v0, a0, pre, evs, done) ==
  LET v1 == DeliverAll(v0, evs, host)
  IN  /\ loads' = [k \in 1..Len(loadsNew) |-> Retire(loadsNew[k])]
      /\ mm' = m1
      /\ vw' = AwaiterViewer(v1, done, host)
      /\ app' = AwaiterApp(a0, done, host)
      /\ emitted' = pre \o Dispatched(evs) \o AwaiterEvents(done)
      /\ settledNow' = IF done.k = 0 THEN {} ELSE {done}

\* ModelManager.loadModel up to its first await, lines 88-116
CallLoad(url, force, awaiter, m0, v0, a0, pre) ==
  LET k   == Len(loads) + 1
      hit == CacheHit(m0, url, force)
      m1  == IF hit THEN processLoadedModel(m0, k) ELSE BeginLoading(m0)
      evs == << Ev("mm", "loadStart", k) >> \o (IF hit THEN ProcessEvents(k) ELSE << >>)
  IN  Effects(Append(loads, StartedLoad(m0, url, force, awaiter)), m1, v0, a0, pre, evs,
              IF hit THEN Fulfil(k, awaiter, TRUE) ELSE NoSettle)

\* ProductViewer.init, lines 92-141, up to the await of the default model;
\* coreOk: initializeCore (lines 146-161) did not throw
RunInit(coreOk, cfg, a0) ==
  LET vNew  == NewViewer("new", vw.loadingOverlay, vw.errorHidden)
      start == << Ev("viewer", "initStart", 0) >>
      v0    == [vNew EXCEPT !.uiReady = TRUE, !.pc = "initializing"]
      url   == Lookup(cfg, <<"model", "defaultUrl">>)
  IN  IF ~coreOk
      THEN Effects(loads, NoManager, vNew, a0, start, << >>,
                   [Reject(0, "init", "core") EXCEPT !.k = 0])
      ELSE IF Truthy(url)
      THEN CallLoad(url.v, FALSE, "init", ModelManagerNew(cfg), v0, a0, start)
      ELSE Effects(loads, ModelManagerNew(cfg), v0, a0, start, << >>,
                   [Fulfil(0, "init", FALSE) EXCEPT !.k = 0])

\* DOMContentLoaded: new App().init(), part_000 lines 24-58
AppInit(coreOk) ==
  /\ host = "app"
  /\ app.pc = "idle"
  /\ config' = ViewerConfig(cfgEnv, cfgDevice, cfgOptions)
  /\ RunInit(coreOk, config', [app EXCEPT !.pc = "initializing"])
  /\ UNCHANGED << sceneVars, host, cfgEnv, cfgDevice, cfgOptions, matVars, fileVars >>

\* await viewer.init() by the README caller
ViewerInit(coreOk) ==
  /\ host = "direct"
  /\ vw.pc = "new"
  /\ RunInit(coreOk, config, app)
  /\ UNCHANGED << sceneVars, host, cfgVars, matVars, fileVars >>

\* ProductViewer.loadModel(url, options), lines 605-608, from a caller
LoadModel(url, force) ==
  /\ vw.uiReady
  /\ Len(loads) < MaxLoads
  /\ Cardinality(InFlight) < MaxInFlight
  /\ CallLoad(url, force, "api", mm, vw, app, << >>)
  /\ UNCHANGED << sceneVars, host, cfgVars, matVars, fileVars >>

\* a loader callback or the timer of call k ran: the call after it, the
\* manager after it, the events it dispatched and the settlement it caused
Settle(k, l1, m1, evs, done) ==
  /\ Effects([loads EXCEPT ![k] = l1], m1, vw, app, << >>, evs, done)
  /\ UNCHANGED << sceneVars, host, cfgVars, matVars, fileVars >>

ClearTimer(l) == [l EXCEPT !.timer = IF @ = "armed" THEN "cleared" ELSE @]

\* the loader's onLoad callback, lines 169-179, and then loadModel's
\* continuation, lines 118-147; valid: the result has a scene
LoaderOnLoad(k, valid) ==
  /\ k \in 1..Len(loads)
  /\ loads[k].loader = "pending"
  /\ LET l   == [ClearTimer(loads[k]) EXCEPT !.loader = "done", !.st = "settled"]
         m0  == [mm EXCEPT !.loadingProgress = 100]
         got == << Ev("mm", "loadProgress", k) >>
     IN  CASE loads[k].st = "pending" /\ valid ->
                Settle(k, l, CompleteLoad(m0, k, l.url), got \o CompleteEvents(k),
                       Fulfil(k, l.awaiter, FALSE))
           [] loads[k].st = "pending" /\ ~valid ->
                Settle(k, l, CatchLoad(m0), got \o CatchEvents(k),
                       Reject(k, l.awaiter, "invalid"))
           [] OTHER -> Settle(k, l, m0, got, NoSettle)

\* the loader's onError callback, lines 195-198, and then the catch block
LoaderOnError(k) ==
  /\ k \in 1..Len(loads)
  /\ loads[k].loader = "pending"
  /\ LET l == [ClearTimer(loads[k]) EXCEPT !.loader = "failed", !.st = "settled"]
     IN  IF loads[k].st = "pending"
         THEN Settle(k, l, CatchLoad(mm), CatchEvents(k), Reject(k, l.awaiter, "loader"))
         ELSE Settle(k, l, mm, << >>, NoSettle)

\* the loader's onProgress callback with a computable length, lines 181-193
LoaderOnProgress(k) ==
  /\ k \in 1..Len(loads)
  /\ loads[k].loader = "pending"
  /\ Settle(k, loads[k], [mm EXCEPT !.loadingProgress = 50],
            << Ev("mm", "loadProgress", k) >>, NoSettle)

\* the timer of lines 162-164 fires, and then the catch block
LoadingTimeout(k) ==
  /\ k \in 1..Len(loads)
  /\ loads[k].timer = "armed"
  /\ LET l == [loads[k] EXCEPT !.timer = "fired", !.st = "settled"]
     IN  IF loads[k].st = "pending"
         THEN Settle(k, l, CatchLoad(mm), CatchEvents(k), Reject(k, l.awaiter, "timeout"))
         ELSE Settle(k, l, mm, << >>, NoSettle)

\* ModelManager.clearCache() from a caller
ClearCache ==
  /\ vw.uiReady
  /\ mm.modelCache # << >>
  /\ Effects(loads, clearCache(mm), vw, app, << >>, << >>, NoSettle)
  /\ UNCHANGED << sceneVars, host, cfgVars, matVars, fileVars >>

\* a click on #retry-button; App.handleRetryClick (lines 155-178) runs only
\* when setupRetryButton (lines 116-121) has added it as a listener
ClickRetry(coreOk) ==
  /\ host = "app"
  /\ app.retryListener => Len(loads) < MaxLoads /\ Cardinality(InFlight) < MaxInFlight
  /\ LET click == << Ev("dom", "click", 0) >>
         v0    == [vw EXCEPT !.errorHidden = TRUE]
         url   == Lookup(config, <<"model", "defaultUrl">>)
     IN  CASE ~app.retryListener ->
                Effects(loads, mm, vw, app, click, << >>, NoSettle)
           [] app.retryListener /\ ~app.isInitialized ->
                RunInit(coreOk, config, [app EXCEPT !.pc = "initializing"])
           [] app.retryListener /\ app.isInitialized /\ Truthy(url) ->
                CallLoad(url.v, FALSE, "retry", mm, v0, app, click)
           [] OTHER ->
                Effects(loads, mm, v0, app, click, << >>, NoSettle)
  /\ UNCHANGED << sceneVars, host, cfgVars, matVars, fileVars >>

Next ==
  \/ \E coreOk \in BOOLEAN : AppInit(coreOk)
  \/ \E coreOk \in BOOLEAN : ViewerInit(coreOk)
  \/ \E url \in Urls, force \in BOOLEAN : LoadModel(url, force)
  \/ \E k \in 1..MaxLoads, valid \in BOOLEAN : LoaderOnLoad(k, valid)
  \/ \E k \in 1..MaxLoads : LoaderOnError(k)
  \/ \E k \in 1..MaxLoads : LoaderOnProgress(k)
  \/ \E k \in 1..MaxLoads : LoadingTimeout(k)
  \/ ClearCache
  \/ \E coreOk \in BOOLEAN : ClickRetry(coreOk)

Spec == Init /\ [][Next]_vars

\* ---------------------------------------------------------------- C1 ----
\* C1: whatever loadModel calls (forced or not, overlapping or not) and
\* clearCache calls have run, the model cache never holds more entries than
\* maxCacheSize.
C1_CacheBounded == Len(mm.modelCache) <= mm.maxCacheSize

\* the cache is at capacity right after a third call inserted a loaded model
C1_Witness ==
  /\ Len(mm.modelCache) = mm.maxCacheSize
  /\ Len(loads) = 3
  /\ \E s \in settledNow : s.k = 3 /\ s.outcome = "fulfilled" /\ ~s.hit

C3_ResolvedIsCurrent ==
  \A s \in settledNow :
    s.outcome = "fulfilled" =>
      /\ vw.currentModel = s.value
      /\ vw.sceneCurrent = s.value
      /\ s.value \in vw.sceneChildren

\* ---------------------------------------------------------------- C4 ----
\* C4: when the timer of a call fires before the loader reported, the call's
\* promise rejects with the timeout error, loadError is dispatched and
\* isLoading is false; and a promise that has settled never settles again,
\* whatever the loader reports later.
C4_TimeoutRejectsOnce ==
  [][ \A k \in 1..Len(loads) :
        /\ (loads[k].timer = "armed" /\ loads'[k].timer = "fired") =>
             /\ Reject(k, loads[k].awaiter, "timeout") \in settledNow'
             /\ HasEv(emitted', "mm", "loadError", k)
             /\ ~mm'.isLoading
        /\ loads[k].st = "settled" => \A s \in settledNow' : s.k # k
    ]_vars

\* a call was rejected by its timer and its loader has not reported yet
C4_Witness ==
  \E s \in settledNow :
    /\ s.reason = "timeout"
    /\ loads[s.k].loader = "pending"
    /\ loads[s.k].st = "settled"

\* ---------------------------------------------------------------- C6 ----
\* C6: the cache's capacity is the maxCacheSize of the model section of the
\* viewer's configuration: the cache never holds more entries than that.
C6_CapacityIsModelMaxCacheSize ==
  (vw.uiReady /\ Lookup(config, <<"model", "maxCacheSize">>).k = "prim") =>
    Len(mm.modelCache) <= Lookup(config, <<"model", "maxCacheSize">>).v

\* ---------------------------------------------------------------- C8 ----
\* C8: once App.init has failed, a click on the retry button starts
\* initialization again.
C8_RetryReinitializes ==
  [][ (app.pc = "failed" /\ HasEv(emitted', "dom", "click", 0)) =>
        HasEv(emitted', "viewer", "initStart", 0) ]_vars

\* ---------------------------------------------------------------- C9 ----
\* C9: when a model load has failed (loader error, invalid data or timeout)
\* the loading overlay is hidden, the error overlay is visible and an
\* 'error' event was dispatched on the viewer.
C9_FailureShowsError ==
  \A s \in settledNow :
    s.outcome = "rejected" =>
      /\ vw.loadingOverlay = "none"
      /\ ~vw.errorHidden
      /\ HasEv(emitted, "viewer", "error", s.k)

\* the loader delivered a result without a scene while another load is in flight
C9_Witness ==
  /\ \E s \in settledNow : s.reason = "invalid"
  /\ InFlight # {}

\* --------------------------------------------------------------- C13 ----
\* the terminal events (loadComplete, loadError) dispatched for call k
TerminalEvents(evs, k) ==
  { i \in 1..Len(evs) :
      evs[i].src = "mm" /\ evs[i].k = k /\ evs[i].type \in {"loadComplete", "loadError"} }

\* C13: when the promise of a loadModel call settles, exactly one terminal
\* event, loadComplete or loadError, was dispatched for that call, whether
\* the loader or the cache served it; and no terminal event is dispatched for
\* a call whose promise has settled before.
C13_OneTerminalEvent ==
  [][ /\ \A s \in settledNow' :
           s.k # 0 => Cardinality(TerminalEvents(emitted', s.k)) = 1
      /\ \A k \in 1..Len(loads) :
           loads[k].st = "settled" => TerminalEvents(emitted', k) = {}
    ]_vars

\* --------------------------------------------------------------- C14 ----
\* C14: a step that puts the model of URL u in the cache removes another
\* entry only if u was not in the cache and the cache held maxCacheSize
\* entries; in particular a forced reload of a cached URL removes nothing.
C14_EvictsOnlyForNewUrl ==
  [][ \A s \in settledNow' :
        (s.outcome = "fulfilled" /\ ~s.hit /\ s.k \in 1..Len(loads)) =>
          (CachedUrls(mm.modelCache) \ CachedUrls(mm'.modelCache) # {} =>
             /\ loads[s.k].url \notin CachedUrls(mm.modelCache)
             /\ Len(mm.modelCache) = mm.maxCacheSize)
    ]_vars

\* --------------------------------------------------------------- C15 ----
\* C15: when the loader of a call that its timer has already rejected
\* reports (success or error), no event is dispatched and the ModelManager
\* and the viewer with its scene stay as they were.
C15_LateCallbackHasNoEffect ==
  [][ \A k \in 1..Len(loads) :
        (loads[k].st = "settled" /\ loads[k].loader = "pending"
           /\ loads'[k].loader # "pending") =>
          (emitted' = << >> /\ mm' = mm /\ vw' = vw)
    ]_vars

\* --------------------------------------------------------------- C16 ----
\* C16: isLoadingModel() is true exactly when some loadModel call has
\* started and its promise has not settled.
C16_IsLoadingIffPending ==
  vw.uiReady => (mm.isLoading <=> \E k \in 1..Len(loads) : loads[k].st = "pending")



(***************************************************************************)
(* SpecMat: an initialized viewer whose models arrive one after the other  *)
(* (handleModelLoaded), with the material preset entry points called in    *)
(* any order.  Every model's meshes start with the model's own materials.  *)
(***************************************************************************)
PresetInputs == { "default", "metallic", "glass", "neon" }

\* an initialized viewer on a page where nothing is loading
ViewerIdle ==
  /\ host = "direct"
  /\ cfgEnv = "development"
  /\ cfgDevice = "desktop"
  /\ cfgOptions = EmptyObj
  /\ config = ViewerConfig(cfgEnv, cfgDevice, cfgOptions)
  /\ app = NewApp
  /\ vw = [NewViewer("initialized", "none", TRUE) EXCEPT !.uiReady = TRUE]
  /\ mm = ModelManagerNew(config)
  /\ loads = << >>
  /\ emitted = << >>
  /\ settledNow = {}

InitMat ==
  /\ ViewerIdle
  /\ mat = MaterialManagerNew
  /\ meshMat = [x \in Meshes |-> ModelMaterial(x)]
  /\ framing = 0
  /\ disposed = {}
  /\ lm = LightingManagerNew
  /\ FileIdle
  /\ SceneIdle

\* handleModelLoaded(model) up to `await frameObject`, viewer.js lines 237-251
MatModelLoaded ==
  /\ vw.currentModel < NumModels
  /\ vw' = handleModelLoaded(vw, vw.currentModel + 1)
  /\ mat' = setCurrentModel(mat, vw.currentModel + 1)
  /\ framing' = framing + 1
  /\ disposed' = disposed \cup (IF vw.sceneCurrent # 0
                                 THEN disposeObject(vw.sceneCurrent, meshMat) ELSE {})
  /\ emitted' = << Ev("materials", "currentModelChanged", "") >>
  /\ UNCHANGED << sceneVars, meshMat, lm, host, cfgVars, app, mm, loads, settledNow, fileVars >>

\* the camera animation ended: handleModelLoaded, viewer.js lines 253-255,
\* with materials.defaultPreset = 'default' (config.js line 160)
MatFrameDone ==
  /\ framing > 0
  /\ mat.created < MaxMaterials
  /\ mat' = applyManager(mat, meshMat, "default")
  /\ meshMat' = applyMeshes(mat, meshMat, "default")
  /\ framing' = framing - 1
  /\ emitted' = applyEvents(mat, "default")
  /\ UNCHANGED << sceneVars, disposed, lm, host, cfgVars, app, vw, mm, loads, settledNow, fileVars >>

\* viewer.setMaterialPreset(preset): the preset selector's change listener
\* (viewer.js lines 445-447) or a caller
SetMaterialPreset(preset) ==
  /\ emitted' = setMaterialPreset(preset)
  /\ UNCHANGED << sceneVars, host, cfgVars, app, vw, mm, loads, settledNow, matVars, fileVars >>

\* materialManager.applyMaterialPreset(presetName) from a caller
ApplyMaterialPreset(presetName) ==
  /\ mat.created < MaxMaterials
  /\ mat' = applyManager(mat, meshMat, presetName)
  /\ meshMat' = applyMeshes(mat, meshMat, presetName)
  /\ emitted' = applyEvents(mat, presetName)
  /\ UNCHANGED << sceneVars, framing, disposed, lm, host, cfgVars, app, vw, mm, loads, settledNow, fileVars >>

\* materialManager.restoreOriginalMaterials() from a caller
RestoreOriginalMaterials ==
  /\ mat' = restoreManager(mat)
  /\ meshMat' = restoreMeshes(mat, meshMat)
  /\ emitted' = restoreEvents(mat)
  /\ UNCHANGED << sceneVars, framing, disposed, lm, host, cfgVars, app, vw, mm, loads, settledNow, fileVars >>

\* materialManager.dispose() from a caller
MaterialManagerDispose ==
  /\ ~mat.isDisposed
  /\ mat' = disposeManager(mat)
  /\ disposed' = disposed \cup disposeManagerDisposes(mat)
  /\ emitted' = << >>
  /\ UNCHANGED << sceneVars, meshMat, framing, lm, host, cfgVars, app, vw, mm, loads, settledNow, fileVars >>

NextMat ==
  \/ MatModelLoaded
  \/ MatFrameDone
  \/ \E preset \in PresetInputs : SetMaterialPreset(preset)
  \/ \E presetName \in PresetInputs : ApplyMaterialPreset(presetName)
  \/ RestoreOriginalMaterials
  \/ MaterialManagerDispose

SpecMat == InitMat /\ [][NextMat]_vars

\* --------------------------------------------------------------- C10 ----
\* C10: whenever a materialPresetChange event is dispatched, a model is
\* loaded, the preset is a known one, it is the manager's current preset and
\* every mesh of the current model carries a material made from it.
C10_ChangeFollowsApply ==
  \A i \in 1..Len(emitted) :
    emitted[i].type = "materialPresetChange" =>
      /\ vw.currentModel # 0
      /\ emitted[i].k \in DOMAIN mat.presets
      /\ mat.currentPreset = emitted[i].k
      /\ \A x \in MeshesOf(vw.currentModel) :
           meshMat[x].src = "preset" /\ meshMat[x].preset = emitted[i].k

\* --------------------------------------------------------------- C11 ----
\* the materials made by applyMaterialPreset so far (the n-th one is named n)
\* on which dispose() has not been called
UndisposedApplied ==
  { n \in 1..mat.created :
      \A d \in disposed : ~(d.src = "preset" /\ d.n = n /\ ~d.cloned) }

AttachedApplied ==
  { meshMat[x].n : x \in { y \in DOMAIN meshMat :
                             meshMat[y].src = "preset" /\ ~meshMat[y].cloned } }

TableMaterials == { mat.materials[key] : key \in DOMAIN mat.materials }

\* C11: every material that applyMaterialPreset made and that has been
\* replaced on the meshes has been disposed: an undisposed material made from
\* a preset is attached to a mesh or is in the manager's materials table.
C11_ReplacedMaterialDisposed ==
  /\ UndisposedApplied \subseteq AttachedApplied
  /\ \A key \in PresetTable :
       createMaterialFromPreset(defaultPresets[key], key, 0) \in TableMaterials \cup disposed

SameMaterial(material, other) == [material EXCEPT !.cloned = FALSE] = [other EXCEPT !.cloned = FALSE]

\* C25: when restoreOriginalMaterials has restored (it dispatched
\* materialsRestored), every mesh of the current model carries the material
\* the model was loaded with.
C25_RestoreReturnsLoadedMaterials ==
  [][ (\E i \in 1..Len(emitted') : emitted'[i].type = "materialsRestored") =>
        \A x \in MeshesOf(mat.currentModel) : SameMaterial(meshMat'[x], ModelMaterial(x))
    ]_vars

(***************************************************************************)
(* SpecPresets: the operations that apply presets and adjust live values,  *)
(* on the MaterialManager and the LightingManager of an initialized        *)
(* viewer.  No preset is added or removed and no manager is disposed.      *)
(***************************************************************************)
PropertyInputs == { "roughness", "sheen" }
LightInputs == { "ambient", "rimLight" }
LightPresetInputs == { "studio", "night", "sunset" }
IntensityInputs == { 0, 30 }

\* materialManager.updateMaterialProperty(propertyName, value) from a caller
UpdateMaterialProperty(propertyName, value) ==
  /\ mat' = updateManager(mat, meshMat, propertyName, value)
  /\ meshMat' = updateMeshes(mat, meshMat, propertyName, value)
  /\ emitted' = updateEvents(mat, propertyName)
  /\ UNCHANGED << sceneVars, framing, disposed, lm, host, cfgVars, app, vw, mm, loads, settledNow,
                  fileVars >>

\* a LightingManager call: the manager after it and the event it dispatches
LightingCall(l1, evs) ==
  /\ lm' = l1
  /\ emitted' = evs
  /\ UNCHANGED << sceneVars, mat, meshMat, framing, disposed, host, cfgVars, app, vw, mm, loads,
                  settledNow, fileVars >>

\* viewer.setLightingPreset(preset), viewer.js lines 663-673
SetLightingPreset(preset) ==
  LightingCall(applyLightingPreset(lm, preset),
               IF preset \in DOMAIN lm.lightPresets
               THEN << Ev("lighting", "lightingPresetApplied", preset),
                       Ev("viewer", "lightingPresetChange", preset) >>
               ELSE << >>)

\* viewer.setLightIntensity(intensity), viewer.js lines 679-685
SetLightIntensity(intensity) ==
  LightingCall(setGlobalIntensity(lm, intensity),
               << Ev("lighting", "globalIntensityChanged", Clamp(intensity)),
                  Ev("viewer", "lightIntensityChange", intensity) >>)

\* lightingManager.setLightIntensity(lightName, intensity) from a caller
SetOneLightIntensity(lightName, intensity) ==
  LightingCall(setLightIntensity(lm, lightName, intensity),
               IF lightName \in DOMAIN lm.lights
               THEN << Ev("lighting", "lightIntensityChanged", lightName) >> ELSE << >>)

\* lightingManager.setLightColor(lightName, color) from a caller
SetLightColor(lightName, color) ==
  LightingCall(setLightColor(lm, lightName, color),
               IF lightName \in DOMAIN lm.lights
               THEN << Ev("lighting", "lightColorChanged", lightName) >> ELSE << >>)

\* viewer.toggleShadows(), viewer.js lines 699-716
ToggleShadows ==
  LightingCall(setShadowsEnabled(lm, ~lm.shadowsEnabled),
               << Ev("lighting", "shadowsToggled", "") >>)

\* the first model has been loaded and framed: handleModelLoaded has run to
\* its end (viewer.js lines 237-261)
InitPresets ==
  /\ host = "direct"
  /\ cfgEnv = "development"
  /\ cfgDevice = "desktop"
  /\ cfgOptions = EmptyObj
  /\ config = ViewerConfig(cfgEnv, cfgDevice, cfgOptions)
  /\ app = NewApp
  /\ vw = handleModelLoaded([NewViewer("initialized", "none", TRUE) EXCEPT !.uiReady = TRUE], 1)
  /\ mm = ModelManagerNew(config)
  /\ loads = << >>
  /\ emitted = << >>
  /\ settledNow = {}
  /\ FileIdle
  /\ SceneIdle
  /\ LET m    == setCurrentModel(MaterialManagerNew, 1)
         mesh == [x \in Meshes |-> ModelMaterial(x)]
     IN  /\ mat = applyManager(m, mesh, "default")
         /\ meshMat = applyMeshes(m, mesh, "default")
  /\ framing = 0
  /\ disposed = {}
  /\ lm = LightingManagerNew

NextPresets ==
  \/ \E presetName \in { "metallic", "neon" } : ApplyMaterialPreset(presetName)
  \/ RestoreOriginalMaterials
  \/ \E propertyName \in PropertyInputs : UpdateMaterialProperty(propertyName, 7)
  \/ \E preset \in LightPresetInputs : SetLightingPreset(preset)
  \/ \E intensity \in IntensityInputs : SetLightIntensity(intensity)
  \/ \E lightName \in LightInputs : SetOneLightIntensity(lightName, 50)
  \/ \E lightName \in LightInputs : SetLightColor(lightName, 6)
  \/ ToggleShadows

SpecPresets == InitPresets /\ [][NextPresets]_vars

\* --------------------------------------------------------------- C12 ----
\* C12: whatever presets have been applied and whatever live values have
\* been adjusted, every entry of the material preset table and of the
\* lighting preset table is what it was right after construction.
C12_PresetTablesUnchanged ==
  /\ mat.presets = defaultPresets
  /\ lm.lightPresets = defaultLightPresets

\* a preset other than the first was applied to a loaded model and to the
\* lights, and a material and a light then got values that no preset holds
C12_Witness ==
  /\ mat.currentPreset = "metallic"
  /\ \E x \in DOMAIN meshMat : meshMat[x].src = "preset" /\ meshMat[x].roughness = 7
  /\ lm.currentPreset = "night"
  /\ lm.globalIntensity = 20
  /\ lm.lights["ambient"].originalIntensity = 50
  /\ lm.lights["ambient"].color = 6

(***************************************************************************)
(* SpecLight: the LightingManager of an initialized viewer, init() having  *)
(* run to its end.  Callers apply the built-in presets and a custom preset *)
(* "showroom" that names an environment map, and adjust intensities and    *)
(* shadows.                                                                *)
(***************************************************************************)
MaxEnvLoads == 2
ApplyInputs == { "studio", "night", "showroom", "sunset" }
EnvironmentInputs == { "hdr", "jpg" }

showroom(environment) ==
  LightPreset(<< LightConfig("keyLight", "DirectionalLight", 1, 80, TRUE),
                 LightConfig("fillLight", "DirectionalLight", 1, 40, FALSE) >>, environment)

InitLight ==
  /\ ViewerIdle
  /\ MatIdle
  /\ FileIdle
  /\ SceneIdle

\* what a LightingManager step leaves alone
LightFrame ==
  UNCHANGED << mat, meshMat, framing, disposed, host, cfgVars, app, vw, mm, loads,
               settledNow, fileVars, rm, raf, cam >>

\* lightingManager.addLightingPreset('showroom', preset) from a caller
AddLightingPreset(environment) ==
  /\ lm' = addLightingPreset(lm, "showroom", showroom(environment))
  /\ emitted' = << Ev("lighting", "presetAdded", "showroom") >>
  /\ UNCHANGED envLoads
  /\ LightFrame

\* lightingManager.applyLightingPreset(presetName) from a caller, up to its
\* return or to the await of line 315
ApplyLightingPreset(presetName) ==
  /\ CASE presetName \notin DOMAIN lm.lightPresets ->
            /\ emitted' = << >>
            /\ UNCHANGED << lm, envLoads >>
       [] presetName \in DOMAIN lm.lightPresets
            /\ lm.lightPresets[presetName].environment = "null" ->
            /\ lm' = applyLightingPreset(lm, presetName)
            /\ emitted' = << Ev("lighting", "lightingPresetApplied", presetName) >>
            /\ UNCHANGED envLoads
       [] presetName \in DOMAIN lm.lightPresets
            /\ lm.lightPresets[presetName].environment # "null"
            /\ loadEnvironmentMap(lm.lightPresets[presetName].environment) = "throws" ->
            /\ lm' = applyLights(lm, presetName)
            /\ emitted' = << Ev("lighting", "environmentMapError", presetName),
                             Ev("lighting", "lightingError", presetName) >>
            /\ UNCHANGED envLoads
       [] OTHER ->
            /\ Len(envLoads) < MaxEnvLoads
            /\ lm' = applyLights(lm, presetName)
            /\ envLoads' = Append(envLoads, presetName)
            /\ emitted' = << >>
  /\ LightFrame

\* the texture loader started by loadHDRTexture (lines 728-747) reports: the
\* k-th waiting applyLightingPreset call resumes, lines 684-702 and 318-338
EnvironmentLoaded(k, ok) ==
  /\ k \in 1..Len(envLoads)
  /\ envLoads' = SubSeq(envLoads, 1, k - 1) \o SubSeq(envLoads, k + 1, Len(envLoads))
  /\ IF ok
     THEN /\ lm' = applyDone(lm, envLoads[k])
          /\ emitted' = << Ev("lighting", "environmentMapLoaded", envLoads[k]),
                           Ev("lighting", "lightingPresetApplied", envLoads[k]) >>
     ELSE /\ lm' = lm
          /\ emitted' = << Ev("lighting", "environmentMapError", envLoads[k]),
                           Ev("lighting", "lightingError", envLoads[k]) >>
  /\ LightFrame

NextLight ==
  \/ \E environment \in EnvironmentInputs : AddLightingPreset(environment)
  \/ \E presetName \in ApplyInputs : ApplyLightingPreset(presetName)
  \/ \E k \in 1..MaxEnvLoads, ok \in BOOLEAN : EnvironmentLoaded(k, ok)
  \/ \E intensity \in IntensityInputs : SetLightIntensity(intensity)
  \/ \E lightName \in { "ambient", "keyLight" } : SetOneLightIntensity(lightName, 50)
  \/ ToggleShadows

SpecLight == InitLight /\ [][NextLight]_vars

\* the descriptor a tracked light was created from
Descriptor(light) ==
  LET preset == lm.lightPresets[light.from].lights
  IN  preset[CHOOSE i \in 1..Len(preset) : preset[i].name = light.name]

LightNames(presetName) ==
  LET preset == lm.lightPresets[presetName].lights
  IN  { preset[i].name : i \in 1..Len(preset) }

\* --------------------------------------------------------------- C22 ----
\* C22: when every applyLightingPreset call made so far has returned, the
\* lights tracked by the manager are the lights it has in the scene, and
\* their names are the light names of the preset that getCurrentPreset()
\* reports.
C22_LightsMatchCurrentPreset ==
  envLoads = << >> =>
    /\ lm.sceneLights = Tracked(lm)
    /\ DOMAIN lm.lights = LightNames(lm.currentPreset)

\* --------------------------------------------------------------- C23 ----
\* a light's base intensity: the latest setLightIntensity value for it, or
\* the intensity of its preset descriptor
BaseIntensity(light) ==
  IF light.originalIntensity # 0 THEN light.originalIntensity
  ELSE Descriptor(light).intensity

\* C23: the global intensity is within [0, 2] and every tracked light's
\* intensity is its base intensity multiplied by the global intensity.
C23_IntensityIsBaseTimesGlobal ==
  /\ lm.globalIntensity \in 0..20
  /\ \A name \in DOMAIN lm.lights :
       lm.lights[name].intensity * 10 = BaseIntensity(lm.lights[name]) * lm.globalIntensity

\* --------------------------------------------------------------- C24 ----
\* C24: a light whose descriptor does not ask for shadows never casts one,
\* and while shadows are enabled every light's castShadow is what its
\* descriptor says.
C24_ShadowFollowsDescriptor ==
  \A name \in DOMAIN lm.lights :
    /\ lm.lights[name].castShadow => Descriptor(lm.lights[name]).castShadow
    /\ lm.shadowsEnabled =>
         lm.lights[name].castShadow = Descriptor(lm.lights[name]).castShadow

(***************************************************************************)
(* SpecFile: files dropped on (or picked for) the FileDropHandler that the *)
(* viewer creates in setupFileHandling, viewer.js lines 266-300.           *)
(***************************************************************************)
MaxDrops == 2

File(name, size, magic, doc, headDoc) ==
  [ name |-> name, size |-> size, magic |-> magic, doc |-> doc, headDoc |-> headDoc ]

NameGlb == << "m", ".", "g", "l", "b" >>
NameGlbUpper == << "M", ".", "G", "L", "B" >>
NameGltf == << "m", ".", "g", "l", "t", "f" >>
NameObj == << "m", ".", "o", "b", "j" >>
NameNoDot == << "g", "l", "b" >>
Docs == { "gltf", "json", "text" }

Files ==
  { File(NameGlb, size, FALSE, "text", "text") : size \in {0, 3} }
  \cup { File(NameGlb, 12, magic, "text", "text") : magic \in BOOLEAN }
  \cup { File(NameGlb, size, TRUE, "text", "text") : size \in {MaxFileSize, MaxFileSize + 1} }
  \cup { File(NameGlbUpper, 12, TRUE, "text", "text") }
  \cup { File(NameGltf, 0, FALSE, "text", "text") }
  \cup { File(NameGltf, 100, FALSE, doc, doc) : doc \in Docs }
  \cup { File(NameGltf, 2000, FALSE, "gltf", headDoc) : headDoc \in {"gltf", "text"} }
  \cup { File(NameGltf, MaxFileSize + 1, FALSE, "gltf", "text") }
  \cup { File(NameObj, 100, TRUE, "text", "text"), File(NameNoDot, 100, TRUE, "text", "text") }

InitFile ==
  /\ ViewerIdle
  /\ MatIdle
  /\ SceneIdle
  /\ fdh = NewFileDropHandler
  /\ drops = << >>
  /\ timers = NoTimers

\* handleFiles' catch block, part_002 lines 361-371, for invocation i:
\* showErrorState arms the 5 s timer, fileerror goes to the viewer's
\* listener (viewer.js lines 291-294), which calls handleError
Rejected(i, file, st) ==
  /\ drops' = [ j \in 1..(IF i > Len(drops) THEN i ELSE Len(drops)) |->
                  IF j = i THEN NewDrop(file, st, {"fileerror"}) ELSE drops[j] ]
  /\ timers' = [timers EXCEPT !.error = @ + 1]
  /\ vw' = handleError(vw, host)
  /\ emitted' = << Ev("files", "fileerror", i), Ev("viewer", "error", i) >>
  /\ UNCHANGED fdh

\* handleFiles(files) for a drop or a picker selection, part_002 lines
\* 313-330, and validateFile up to the FileReader, lines 379-404
HandleFiles(file) ==
  /\ Len(drops) < MaxDrops
  /\ CASE fdh.isProcessing ->
            /\ drops' = Append(drops, NewDrop(file, "ignored", {}))
            /\ emitted' = << >>
            /\ UNCHANGED << fdh, timers, vw >>
       [] ~fdh.isProcessing /\ ~(sizeOk(file) /\ extensionOk(file)) ->
            Rejected(Len(drops) + 1, file, "rejected")
       [] OTHER ->
            /\ drops' = Append(drops, NewDrop(file, "reading", {}))
            /\ emitted' = << >>
            /\ UNCHANGED << fdh, timers, vw >>
  /\ UNCHANGED << sceneVars, host, cfgVars, app, mm, loads, settledNow, matVars >>

\* the FileReader's load event, lines 430-468, and then validateFile and
\* handleFiles to their end, lines 331-360
ReaderLoad(i) ==
  /\ i \in 1..Len(drops)
  /\ drops[i].st = "reading"
  /\ CASE onload(drops[i].file) = "throws" ->
            /\ drops' = [drops EXCEPT ![i].st = "hung"]
            /\ emitted' = << >>
            /\ UNCHANGED << fdh, timers, vw >>
       [] onload(drops[i].file) = "invalid" ->
            Rejected(i, drops[i].file, "rejected")
       [] OTHER ->
            /\ fdh' = [fdh EXCEPT !.currentFile = i, !.isProcessing = TRUE]
            /\ drops' = [drops EXCEPT ![i].st = "loading",
                                      ![i].events = {"fileaccepted", "fileready"}]
            /\ emitted' = << Ev("files", "fileaccepted", i), Ev("files", "fileready", i) >>
            /\ UNCHANGED << timers, vw >>
  /\ UNCHANGED << sceneVars, host, cfgVars, app, mm, loads, settledNow, matVars >>

\* the FileReader's error event, lines 472-477
ReaderError(i) ==
  /\ i \in 1..Len(drops)
  /\ drops[i].st = "reading"
  /\ Rejected(i, drops[i].file, "unreadable")
  /\ UNCHANGED << sceneVars, host, cfgVars, app, mm, loads, settledNow, matVars >>

\* setProcessingComplete, part_002 lines 646-659
setProcessingComplete(h) == [h EXCEPT !.isProcessing = FALSE]

\* the loadModel(url) awaited by the viewer's fileready listener settled,
\* viewer.js lines 275-289
FileLoadSettled(i, ok) ==
  /\ i \in 1..Len(drops)
  /\ drops[i].st = "loading"
  /\ IF ok
     THEN /\ fdh' = setProcessingComplete(fdh)
          /\ timers' = [timers EXCEPT !.complete = @ + 1]
          /\ drops' = [drops EXCEPT ![i].st = "complete"]
          /\ emitted' = << Ev("files", "processingcomplete", i) >>
          /\ UNCHANGED vw
     ELSE /\ fdh' = resetState(fdh)
          /\ drops' = [drops EXCEPT ![i].st = "loadFailed"]
          /\ vw' = handleError(vw, host)
          /\ emitted' = << Ev("viewer", "error", i) >>
          /\ UNCHANGED timers
  /\ UNCHANGED << sceneVars, host, cfgVars, app, mm, loads, settledNow, matVars >>

\* a timer armed by showErrorState (lines 522-525) or setProcessingComplete
\* (lines 650-652) fires: resetState
TimerFires(kind) ==
  /\ timers[kind] > 0
  /\ timers' = [timers EXCEPT ![kind] = @ - 1]
  /\ fdh' = resetState(fdh)
  /\ emitted' = << >>
  /\ UNCHANGED << sceneVars, drops, host, cfgVars, app, vw, mm, loads, settledNow, matVars >>

NextFile ==
  \/ \E file \in Files : HandleFiles(file)
  \/ \E i \in 1..MaxDrops : ReaderLoad(i)
  \/ \E i \in 1..MaxDrops : ReaderError(i)
  \/ \E i \in 1..MaxDrops, ok \in BOOLEAN : FileLoadSettled(i, ok)
  \/ \E kind \in {"error", "complete"} : TimerFires(kind)

SpecFile == InitFile /\ [][NextFile]_vars

\* ---------------------------------------------------------------- C7 ----
\* the sniff: the glTF magic number at the start of a .glb file, JSON with
\* asset.version in what is read of a .gltf file
sniffOk(file) ==
  CASE getFileExtension(file.name) = << ".", "g", "l", "b" >> -> file.magic
    [] getFileExtension(file.name) = << ".", "g", "l", "t", "f" >> -> file.headDoc = "gltf"
    [] OTHER -> TRUE

passes(file) == sizeOk(file) /\ extensionOk(file) /\ sniffOk(file)

\* C7: fileready is dispatched for a file only if its size, its extension
\* and its content pass the checks, and once the content of a file that
\* fails a check has been read (or its size or extension has been refused)
\* fileerror was dispatched for it and fileready was not.
C7_FileReadyOnlyIfValid ==
  \A i \in 1..Len(drops) :
    /\ "fileready" \in drops[i].events => passes(drops[i].file)
    /\ (~passes(drops[i].file) /\ drops[i].st \notin {"ignored", "reading"}) =>
         ("fileerror" \in drops[i].events /\ "fileready" \notin drops[i].events)

\* --------------------------------------------------------------- C18 ----
\* a .glb file that begins with the glTF magic number, a .gltf file whose
\* whole content is a JSON document with asset.version
wellFormed(file) ==
  CASE getFileExtension(file.name) = << ".", "g", "l", "b" >> -> file.magic
    [] getFileExtension(file.name) = << ".", "g", "l", "t", "f" >> -> file.doc = "gltf"
    [] OTHER -> FALSE

\* C18: once the FileReader has delivered the content of a well-formed file
\* of an allowed extension and of at most maxFileSize bytes, whatever its
\* length, the file was accepted (validateFile returned valid: true, so
\* fileaccepted was dispatched).
C18_WellFormedAccepted ==
  \A i \in 1..Len(drops) :
    ( /\ drops[i].st \notin {"ignored", "reading", "unreadable"}
      /\ sizeOk(drops[i].file) /\ extensionOk(drops[i].file)
      /\ wellFormed(drops[i].file) ) =>
      "fileaccepted" \in drops[i].events

\* --------------------------------------------------------------- C19 ----
\* C19: a handleFiles invocation that was not ignored is either still
\* waiting for the FileReader or has dispatched exactly one of fileready and
\* fileerror: validation ends with the FileReader's report, also for empty
\* files and for .glb files shorter than the magic number.
C19_ValidationEnds ==
  \A i \in 1..Len(drops) :
    drops[i].st \notin {"ignored", "reading"} =>
      Cardinality(drops[i].events \cap {"fileready", "fileerror"}) = 1

\* --------------------------------------------------------------- C20 ----
\* C20: while a file is in processing (handleFiles was invoked for it and
\* neither setProcessingComplete nor resetState has run for it since), a
\* further handleFiles invocation is ignored, so that it dispatches neither
\* fileaccepted nor fileready.
C20_OneFileAtATime ==
  [][ ( /\ Len(drops') = Len(drops) + 1
        /\ \E j \in 1..Len(drops) : drops[j].st \in {"reading", "loading"} ) =>
        drops'[Len(drops')].st = "ignored"
    ]_vars

\* --------------------------------------------------------------- C21 ----
\* the invocations whose outcome has armed a delayed reset
Finished == { j \in 1..Len(drops) : drops[j].st \in {"rejected", "unreadable", "complete"} }

\* C21: when a delayed reset fires (the 5 s timer of showErrorState, the 1 s
\* timer of setProcessingComplete) while a file dropped after every file
\* whose outcome armed a timer is in processing, isProcessing and
\* currentFile stay as they are.
C21_DelayedResetSparesLaterFile ==
  [][ ( /\ \E kind \in {"error", "complete"} : timers'[kind] < timers[kind]
        /\ fdh.isProcessing
        /\ fdh.currentFile # 0
        /\ drops[fdh.currentFile].st = "loading"
        /\ \A j \in Finished : j < fdh.currentFile ) =>
        fdh' = fdh
    ]_vars


(***************************************************************************)
(* SpecRender: a constructed viewer whose render loop is started and       *)
(* stopped by callers, with the RendererManager's switches used in any     *)
(* order; the browser runs the scheduled animation frame callbacks.        *)
(***************************************************************************)
InitRender ==
  /\ ViewerIdle
  /\ MatIdle
  /\ FileIdle
  /\ envLoads = << >>
  /\ rm = RendererManagerNew
  /\ raf = NewLoop
  /\ cam = CameraManagerNew

\* what a step of the renderer or of the render loop leaves alone
RenderFrame ==
  /\ emitted' = << >>
  /\ UNCHANGED << host, cfgVars, app, vw, mm, loads, settledNow, matVars, fileVars,
                  envLoads, cam >>

\* the render() call at the end of animate, viewer.js lines 569-574
LoopRender(v1) == IF v1.frame THEN render(rm) ELSE [rm EXCEPT !.last = "none"]

\* viewer.startAnimationLoop() from init() (viewer.js line 123) or a caller
StartAnimationLoop ==
  /\ raf.nextId <= MaxFrameIds
  /\ rm.frameCount < MaxFrames
  /\ raf' = startAnimationLoop(raf)
  /\ rm' = LoopRender(raf')
  /\ RenderFrame

\* viewer.stopAnimationLoop() from a caller
StopAnimationLoop ==
  /\ raf' = stopAnimationLoop(raf)
  /\ rm' = [rm EXCEPT !.last = "none"]
  /\ RenderFrame

\* viewer.dispose() from a caller
ViewerDispose ==
  /\ raf' = disposeViewer(raf)
  /\ rm' = IF raf.isDisposed THEN [rm EXCEPT !.last = "none"] ELSE disposeRenderer(rm)
  /\ RenderFrame

\* the browser runs the scheduled callback number id
AnimationFrame(id) ==
  /\ id \in raf.pending
  /\ raf.nextId <= MaxFrameIds
  /\ rm.frameCount < MaxFrames
  /\ raf' = animate([raf EXCEPT !.pending = @ \ {id}])
  /\ rm' = LoopRender(raf')
  /\ RenderFrame

\* a RendererManager call from a caller or a DOM listener
RendererCall(r1) ==
  /\ ~raf.isDisposed
  /\ rm' = r1
  /\ raf' = [raf EXCEPT !.frame = FALSE]
  /\ RenderFrame

Render == rm.frameCount < MaxFrames /\ RendererCall(render(rm))
RequestRender == RendererCall(requestRender(rm))
Resize == RendererCall(resize(rm))
SetToneMappingExposure == RendererCall(setToneMappingExposure(rm))
SetRenderOnDemand(enabled) == RendererCall(setRenderOnDemand(rm, enabled))
SetRenderingEnabled(enabled) == RendererCall(setRenderingEnabled(rm, enabled))
ResetPerformanceStats == RendererCall(resetPerformanceStats(rm))

NextRender ==
  \/ StartAnimationLoop
  \/ StopAnimationLoop
  \/ ViewerDispose
  \/ \E id \in 1..MaxFrameIds : AnimationFrame(id)
  \/ Render
  \/ RequestRender
  \/ Resize
  \/ SetToneMappingExposure
  \/ \E enabled \in BOOLEAN : SetRenderOnDemand(enabled)
  \/ \E enabled \in BOOLEAN : SetRenderingEnabled(enabled)
  \/ ResetPerformanceStats

SpecRender == InitRender /\ [][NextRender]_vars

\* --------------------------------------------------------------- C26 ----
\* C26: with render-on-demand enabled, a render() call draws a frame only
\* if rendering is enabled and a render was requested since the last drawn
\* frame, and it does draw one in that case; a render() call made while
\* rendering is disabled draws nothing and leaves frameCount as it is.
C26_RenderOnDemand ==
  [][ /\ (rm.renderOnDemand /\ rm'.last = "drawn") => (rm.shouldRender /\ rm.requested)
      /\ (rm.renderOnDemand /\ rm'.last # "none" /\ rm.shouldRender /\ rm.requested) =>
           (rm'.last = "drawn" /\ rm'.frameCount = rm.frameCount + 1 /\ ~rm'.requested)
      /\ (rm'.last # "none" /\ ~rm.shouldRender) =>
           (rm'.last = "skipped" /\ rm'.frameCount = rm.frameCount)
    ]_vars

\* with render-on-demand enabled a frame of the loop was skipped for want of
\* a request, a request was made while rendering was disabled, and after
\* the resume a render() call drew the frame
C26_Witness ==
  /\ rm.renderOnDemand
  /\ rm.shouldRender
  /\ rm.last = "drawn"
  /\ rm.frameCount = 2
  /\ ~rm.needsRender
  /\ raf.isAnimating

\* --------------------------------------------------------------- C27 ----
\* C27: at most one animation frame callback of the render loop is pending,
\* none is pending while the loop is stopped or the viewer is disposed, and
\* a task that starts with the loop stopped or the viewer disposed runs a
\* frame of the loop only if it is a startAnimationLoop call on a viewer
\* that is not disposed.
C27_OneLoop ==
  [][ /\ Cardinality(raf'.pending) <= 1
      /\ (~raf'.isAnimating \/ raf'.isDisposed) => raf'.pending = {}
      /\ ((~raf.isAnimating \/ raf.isDisposed) /\ raf'.frame) =>
           (~raf.isAnimating /\ ~raf.isDisposed /\ raf'.isAnimating)
    ]_vars

\* the loop has scheduled two callbacks and has then been stopped: nothing
\* is pending and the renderer has drawn its frames
C27_Witness ==
  /\ ~raf.isAnimating
  /\ ~raf.isDisposed
  /\ raf.nextId = 3
  /\ raf.pending = {}
  /\ rm.frameCount = 2

(***************************************************************************)
(* SpecCamera: the CameraManager of an initialized viewer; callers start   *)
(* camera transitions of different durations, the browser runs the         *)
(* animation frames.                                                       *)
(***************************************************************************)
InitCamera ==
  /\ ViewerIdle
  /\ MatIdle
  /\ FileIdle
  /\ envLoads = << >>
  /\ rm = RendererManagerNew
  /\ raf = NewLoop
  /\ cam = CameraManagerNew

CameraStep(c1) ==
  /\ cam' = c1
  /\ emitted' = << >>
  /\ UNCHANGED << host, cfgVars, app, vw, mm, loads, settledNow, matVars, fileVars,
                  envLoads, rm, raf >>

\* cameraManager.applyViewPreset(presetId, duration), lines 2081-2100
ApplyViewPreset(presetId, frames) ==
  /\ Len(cam.anims) < MaxAnimations
  /\ CameraStep(animateToPosition(cam, presetId, frames))

\* cameraManager.resetToDefault(duration), lines 2159-2165
ResetToDefault(frames) ==
  /\ Len(cam.anims) < MaxAnimations
  /\ CameraStep(animateToPosition(cam, "default", frames))

\* cameraManager.frameObject(object, padding, duration), lines 2175-2201
FrameObject(frames) ==
  /\ Len(cam.anims) < MaxAnimations
  /\ CameraStep(animateToPosition(cam, "frame", frames))

\* the browser runs an animation frame
CameraFrame ==
  /\ cam.anims # << >>
  /\ CameraStep(animationFrame(cam))

NextCamera ==
  \/ \E presetId \in ViewPresetInputs, frames \in Durations : ApplyViewPreset(presetId, frames)
  \/ \E frames \in Durations : ResetToDefault(frames)
  \/ \E frames \in Durations : FrameObject(frames)
  \/ CameraFrame

SpecCamera == InitCamera /\ [][NextCamera]_vars

\* --------------------------------------------------------------- C28 ----
\* C28: when no camera transition is in progress, the camera is at the
\* target of the transition that was started last.
C28_LatestTransitionWins ==
  (cam.anims = << >> /\ cam.last # "none") =>
    cam.position = [ at |-> cam.last, arrived |-> TRUE ]

(***************************************************************************)
(* SpecConfig: the ProductViewer constructor's configuration merge on      *)
(* every environment, device class and caller-supplied options object.     *)
(***************************************************************************)
InitConfig ==
  /\ cfgEnv \in Environments
  /\ cfgDevice \in DeviceTypes
  /\ cfgOptions \in UserOptions
  /\ config = Unset
  /\ host = "direct"
  /\ app = NewApp
  /\ vw = NewViewer("none", "none", TRUE)
  /\ mm = NoManager
  /\ loads = << >>
  /\ emitted = << >>
  /\ settledNow = {}
  /\ MatNone
  /\ FileIdle
  /\ SceneIdle

\* new ProductViewer(container, options): lines 34-40
Construct ==
  /\ config = Unset
  /\ config' = ViewerConfig(cfgEnv, cfgDevice, cfgOptions)
  /\ vw' = [vw EXCEPT !.pc = "new"]
  /\ UNCHANGED << sceneVars, cfgEnv, cfgDevice, cfgOptions, host, app, mm, loads, emitted, settledNow,
                  matVars, fileVars >>

NextConfig == Construct

SpecConfig == InitConfig /\ [][NextConfig]_vars

\* ---------------------------------------------------------------- C5 ----
RECURSIVE LeafPaths(_)
LeafPaths(x) ==
  IF x.k = "obj"
  THEN UNION { { <<key>> \o q : q \in LeafPaths(x.f[key]) } : key \in DOMAIN x.f }
  ELSE { <<>> }

\* A layer defines a path when it holds a value there; an array is a value
\* (config.js mergeConfig replaces arrays whole).
IsValue(x) == x.k \in {"prim", "arr", "null"}
Layers == << cfgOptions, DEVICE_CONFIG[cfgDevice], ENVIRONMENT_CONFIG[cfgEnv], DEFAULT_CONFIG >>
DefinedIn(p) == { i \in 1..4 : IsValue(Lookup(Layers[i], p)) }
PrecedenceValue(p) ==
  Lookup(Layers[CHOOSE i \in DefinedIn(p) : \A j \in DefinedIn(p) : i <= j], p)
ConfigPaths == LeafPaths(DEFAULT_CONFIG) \cup LeafPaths(cfgOptions)

\* C5: for every option key path the effective configuration holds the
\* value of the highest-precedence layer that defines the path (caller
\* options > device class > environment > defaults).
C5_Precedence ==
  config.k = "obj" =>
    \A p \in ConfigPaths :
      DefinedIn(p) # {} => Lookup(config, p) = PrecedenceValue(p)


====
